---- MODULE Spec2Model ----
(***************************************************************************)
(* Squish v1.2.0 (src/squish.py): the Game object as a state machine.      *)
(*                                                                         *)
(* A position is a pair <<y, x>>.  block_positions and egg_positions are   *)
(* dicts read only by key: functions from positions.  enemy_positions and  *)
(* hatching_times are dicts the code iterates over, so they keep Python's  *)
(* insertion order: sequences of entries [k |-> key, v |-> value].         *)
(* Times are whole seconds.                                                *)
(***************************************************************************)
EXTENDS Integers, Sequences, FiniteSets, TLC

VARIABLES
    height, width,              \* self.height, self.width (width already halved)
    hero_pos,                   \* self.hero_pos, or None
    block_positions,            \* self.block_positions : pos -> character
    enemy_positions,            \* self.enemy_positions : ordered pos -> character
    egg_positions,              \* self.egg_positions   : pos -> character
    hatching_times,             \* self.hatching_times  : ordered pos -> ready time
    level, lives, total_squished_enemies, moves, score,
    start_time, paused_time,    \* self.start_time, self.paused_time
    now,                        \* the clock, time.time()
    current_time,               \* main_loop's current_time of this iteration
    last_hunter_move_time,      \* main_loop's local
    last_hatch_check_time,      \* main_loop's local
    moved_at, checked_at,       \* history: the clock when move_enemies and
                                \* hatch_eggs last ran (at first, when the
                                \* loop began); the program keeps neither
    tick_count,                 \* squish_03.py: main's tick_count
    pc                          \* where main_loop stands

boardVars == <<block_positions, enemy_positions, egg_positions, hatching_times>>
sessionVars == <<level, lives, total_squished_enemies, moves, score>>
clockVars == <<start_time, paused_time, now, current_time,
               last_hunter_move_time, last_hatch_check_time,
               moved_at, checked_at>>
vars == <<height, width, hero_pos, boardVars, sessionVars, clockVars, tick_count, pc>>

(***************************************************************************)
(* Class constants                                                         *)
(***************************************************************************)
BLOCK_COVERAGE_PCT == 30        \* BLOCK_COVERAGE = 0.30
UNMOVABLE_BLOCKS_PCT == 1       \* UNMOVABLE_BLOCKS = 0.01
INITIAL_NUM_ENEMIES == 1
NUM_EGGS == 3
HUNTER_MOVE_DELAY == 1000       \* milliseconds
HATCHING_TIME == 30             \* seconds
CRUSHER_RADIUS == 10
INITIAL_LIVES == 2              \* __init__: self.lives = 2
RESET_LIVES == 5                \* reset_game: self.lives = 5
SQUISH_SCORE == 2               \* push_blocks: self.score += 2
LEVEL_SCORE == 5                \* display_level_completion: self.score += 5
ENEMY_WEIGHT == 100             \* calculate_weighted_distances
BLOCK_WEIGHT == 1

CHARACTER_MAP ==
    [HERO |-> "<>", HUNTER |-> "HH", WALL |-> "WW",
     EGG |-> "ee", CRUSHER |-> "CC", SENTINEL |-> "SS"]

MOVABLE_BLOCK_CHARACTERS == <<"bB", "Bb">>

None == <<>>

\* the direction list of bfs_find_path, move_enemies, calculate_weighted_distances
directions ==
    << <<-1, 0>>, <<1, 0>>, <<0, -1>>, <<0, 1>>,
       <<-1, -1>>, <<-1, 1>>, <<1, -1>>, <<1, 1>> >>

Directions == {directions[i] : i \in DOMAIN directions}

(***************************************************************************)
(* Dict operations                                                         *)
(***************************************************************************)
\* d[k] = v on an unordered dict
Put(d, key, val) == [p \in (DOMAIN d) \cup {key} |-> IF p = key THEN val ELSE d[p]]

\* d.pop(k) on an unordered dict (the dict that is left)
Pop(d, key) == [p \in (DOMAIN d) \ {key} |-> d[p]]

EmptyDict == [p \in {} |-> None]

\* the keys of an ordered dict
Keys(d) == {d[i].k : i \in DOMAIN d}

\* d[k] on an ordered dict
Get(d, key) == d[CHOOSE i \in DOMAIN d : d[i].k = key].v

\* d[k] = v on an ordered dict: a present key keeps its place, a new key goes last
Set(d, key, val) ==
    IF key \in Keys(d)
    THEN [i \in DOMAIN d |-> IF d[i].k = key THEN [k |-> key, v |-> val] ELSE d[i]]
    ELSE Append(d, [k |-> key, v |-> val])

\* d.pop(k) on an ordered dict (the dict that is left)
Del(d, key) == SelectSeq(d, LAMBDA e : e.k # key)

(***************************************************************************)
(* The fields the movement, pursuit and spawn code reads and writes, as    *)
(* one record g                                                            *)
(***************************************************************************)
Board ==
    [height |-> height, width |-> width,
     block_positions |-> block_positions,
     enemy_positions |-> enemy_positions,
     egg_positions |-> egg_positions,
     total_squished_enemies |-> total_squished_enemies,
     score |-> score]

InBounds(g, y, x) == 0 <= y /\ y < g.height /\ 0 <= x /\ x < g.width

(***************************************************************************)
(* Movement resolver: can_push_blocks, push_blocks, move_entity            *)
(***************************************************************************)
\* a can_push_blocks that lets every push through
can_push_blocks_always(g, block_y, block_x, dy, dx) == TRUE

\* a can_push_blocks without the test for a Hunter or Egg in the way
RECURSIVE can_push_blocks_unguarded(_, _, _, _, _)
can_push_blocks_unguarded(g, block_y, block_x, dy, dx) ==
    LET next_y == block_y + dy
        next_x == block_x + dx
        next_pos == <<next_y, next_x>>
    IN  IF ~InBounds(g, next_y, next_x) THEN FALSE
        ELSE IF /\ next_pos \in DOMAIN g.block_positions
                /\ g.block_positions[next_pos] = CHARACTER_MAP.WALL THEN FALSE
        ELSE IF next_pos \in DOMAIN g.block_positions
             THEN can_push_blocks_unguarded(g, next_y, next_x, dy, dx)
        ELSE TRUE

RECURSIVE can_push_blocks(_, _, _, _, _)
can_push_blocks(g, block_y, block_x, dy, dx) ==
    LET next_y == block_y + dy
        next_x == block_x + dx
        next_pos == <<next_y, next_x>>
        behind_y == next_y + dy
        behind_x == next_x + dx
    IN  IF ~InBounds(g, next_y, next_x) THEN FALSE
        ELSE IF /\ next_pos \in DOMAIN g.block_positions
                /\ g.block_positions[next_pos] = CHARACTER_MAP.WALL THEN FALSE
        ELSE IF /\ \/ next_pos \in Keys(g.enemy_positions)
                   \/ next_pos \in DOMAIN g.egg_positions
                /\ \/ ~InBounds(g, behind_y, behind_x)
                   \/ <<behind_y, behind_x>> \notin DOMAIN g.block_positions THEN FALSE
        ELSE IF next_pos \in DOMAIN g.block_positions
             THEN can_push_blocks(g, next_y, next_x, dy, dx)
        ELSE TRUE

\* a chain walk that looks at every cell once more on the way back
RECURSIVE can_push_blocks_cells_back(_, _, _, _, _)
can_push_blocks_cells_back(g, block_y, block_x, dy, dx) ==
    LET next_pos == <<block_y + dy, block_x + dx>>
    IN  IF /\ InBounds(g, next_pos[1], next_pos[2])
           /\ next_pos \in DOMAIN g.block_positions
           /\ g.block_positions[next_pos] # CHARACTER_MAP.WALL
        THEN 2 + can_push_blocks_cells_back(g, next_pos[1], next_pos[2], dy, dx)
        ELSE 2

\* the number of cells next_pos that can_push_blocks and its recursive calls
\* look at: one for each call, the last of them the cell that ends the walk
RECURSIVE can_push_blocks_cells(_, _, _, _, _)
can_push_blocks_cells(g, block_y, block_x, dy, dx) ==
    LET next_y == block_y + dy
        next_x == block_x + dx
        next_pos == <<next_y, next_x>>
        behind_y == next_y + dy
        behind_x == next_x + dx
    IN  IF ~InBounds(g, next_y, next_x) THEN 1
        ELSE IF /\ next_pos \in DOMAIN g.block_positions
                /\ g.block_positions[next_pos] = CHARACTER_MAP.WALL THEN 1
        ELSE IF /\ \/ next_pos \in Keys(g.enemy_positions)
                   \/ next_pos \in DOMAIN g.egg_positions
                /\ \/ ~InBounds(g, behind_y, behind_x)
                   \/ <<behind_y, behind_x>> \notin DOMAIN g.block_positions THEN 1
        ELSE IF next_pos \in DOMAIN g.block_positions
             THEN 1 + can_push_blocks_cells(g, next_y, next_x, dy, dx)
        ELSE 1

\* push_blocks' while loop: blocks_to_move, nearest first
RECURSIVE CollectBlocks(_, _, _, _, _)
CollectBlocks(blocks, y, x, dy, dx) ==
    IF <<y, x>> \in DOMAIN blocks
    THEN <<<<y, x>>>> \o CollectBlocks(blocks, y + dy, x + dx, dy, dx)
    ELSE <<>>

\* a MoveBlocks that gives every moved block the first skin
RECURSIVE MoveBlocks_reskin(_, _, _, _)
MoveBlocks_reskin(blocks, to_move, dy, dx) ==
    IF to_move = <<>> THEN blocks
    ELSE LET p == to_move[Len(to_move)]
             q == <<p[1] + dy, p[2] + dx>>
         IN  MoveBlocks_reskin(Put(Pop(blocks, p), q, MOVABLE_BLOCK_CHARACTERS[1]),
                               SubSeq(to_move, 1, Len(to_move) - 1), dy, dx)

\* push_blocks' for loop over reversed(blocks_to_move)
RECURSIVE MoveBlocks(_, _, _, _)
MoveBlocks(blocks, to_move, dy, dx) ==
    IF to_move = <<>> THEN blocks
    ELSE LET p == to_move[Len(to_move)]
             q == <<p[1] + dy, p[2] + dx>>
         IN  MoveBlocks(Put(Pop(blocks, p), q, blocks[p]),
                        SubSeq(to_move, 1, Len(to_move) - 1), dy, dx)

\* a push_blocks that moves only the last block of the chain
push_blocks_last(g, block_y, block_x, dy, dx) ==
    LET chain == CollectBlocks(g.block_positions, block_y, block_x, dy, dx)
    IN  [g EXCEPT !.block_positions =
            MoveBlocks(g.block_positions, SubSeq(chain, Len(chain), Len(chain)), dy, dx)]

\* a push_blocks whose chain goes on past the squished hunter
push_blocks_through(g, block_y, block_x, dy, dx) ==
    LET blocks_to_move == CollectBlocks(g.block_positions, block_y, block_x, dy, dx)
        n == Len(blocks_to_move)
        current == <<block_y + n * dy, block_x + n * dx>>
        beyond == CollectBlocks(g.block_positions, current[1] + dy, current[2] + dx, dy, dx)
    IN  IF current \in Keys(g.enemy_positions)
        THEN IF beyond # <<>>
             THEN [g EXCEPT
                     !.block_positions =
                         MoveBlocks(MoveBlocks(g.block_positions, beyond, dy, dx),
                                    blocks_to_move, dy, dx),
                     !.enemy_positions = Del(g.enemy_positions, current),
                     !.total_squished_enemies = g.total_squished_enemies + 1,
                     !.score = g.score + SQUISH_SCORE]
             ELSE g
        ELSE [g EXCEPT !.block_positions =
                 MoveBlocks(g.block_positions, blocks_to_move, dy, dx)]

push_blocks(g, block_y, block_x, dy, dx) ==
    LET blocks_to_move == CollectBlocks(g.block_positions, block_y, block_x, dy, dx)
        n == Len(blocks_to_move)
        current == <<block_y + n * dy, block_x + n * dx>>
        beyond == <<current[1] + dy, current[2] + dx>>
        moved(h) == [h EXCEPT !.block_positions =
                        MoveBlocks(h.block_positions, blocks_to_move, dy, dx)]
    IN  IF current \in Keys(g.enemy_positions)
        THEN IF beyond \in DOMAIN g.block_positions
             THEN moved([g EXCEPT
                     !.enemy_positions = Del(g.enemy_positions, current),
                     !.total_squished_enemies = g.total_squished_enemies + 1,
                     !.score = g.score + SQUISH_SCORE])
             ELSE g
        ELSE moved(g)

\* the entity's new position and the board after the move
move_entity(g, entity_pos, dy, dx) ==
    LET new_y == entity_pos[1] + dy
        new_x == entity_pos[2] + dx
        next_pos == <<new_y, new_x>>
        stay == [pos |-> entity_pos, g |-> g]
    IN  IF InBounds(g, new_y, new_x)
        THEN IF next_pos \in DOMAIN g.block_positions
             THEN IF g.block_positions[next_pos] = CHARACTER_MAP.WALL THEN stay
                  ELSE IF can_push_blocks(g, new_y, new_x, dy, dx)
                       THEN [pos |-> next_pos, g |-> push_blocks(g, new_y, new_x, dy, dx)]
                       ELSE stay
             ELSE IF /\ next_pos \notin Keys(g.enemy_positions)
                     /\ next_pos \notin DOMAIN g.egg_positions
                  THEN [pos |-> next_pos, g |-> g]
                  ELSE stay
        ELSE stay

\* move_hero
MoveHero(dy, dx) ==
    LET r == move_entity(Board, hero_pos, dy, dx)
    IN  /\ hero_pos' = r.pos
        /\ block_positions' = r.g.block_positions
        /\ enemy_positions' = r.g.enemy_positions
        /\ egg_positions' = r.g.egg_positions
        /\ total_squished_enemies' = r.g.total_squished_enemies
        /\ score' = r.g.score
        /\ moves' = moves + 1
        /\ UNCHANGED <<hatching_times, level, lives>>

(***************************************************************************)
(* Random source                                                           *)
(***************************************************************************)
PosLess(p, q) == p[1] < q[1] \/ (p[1] = q[1] /\ p[2] < q[2])

\* the positions of S in row-major order
RECURSIVE RowMajor(_)
RowMajor(S) ==
    IF S = {} THEN <<>>
    ELSE LET p == CHOOSE a \in S : \A b \in S \ {a} : PosLess(a, b)
         IN  <<p>> \o RowMajor(S \ {p})

\* random.sample(population, k), each choice listed in row-major order.
\* rng bounds the random source: "all" draws every choice of k distinct
\* elements, "run" draws the choices that are k neighbours in the row-major
\* list of the population
random_sample(rng, population, k) ==
    IF rng = "all"
    THEN {RowMajor(T) : T \in {U \in SUBSET population : Cardinality(U) = k}}
    ELSE LET list == RowMajor(population)
         IN  {SubSeq(list, i, i + k - 1) : i \in 1 .. Len(list) - k + 1}

Range(s) == {s[i] : i \in DOMAIN s}

(***************************************************************************)
(* Distance field: calculate_distances (no caller in the program)          *)
(***************************************************************************)
\* the direction list of calculate_distances
orthogonal == << <<-1, 0>>, <<1, 0>>, <<0, -1>>, <<0, 1>> >>

\* the for loop over the 4 neighbours of the cell p taken from the queue
RECURSIVE SpreadNeighbours(_, _, _, _, _, _)
SpreadNeighbours(h, w, p, i, distances, queue) ==
    IF i > Len(orthogonal) THEN [distances |-> distances, queue |-> queue]
    ELSE LET ny == p[1] + orthogonal[i][1]
             nx == p[2] + orthogonal[i][2]
         IN  IF /\ 0 <= ny /\ ny < h /\ 0 <= nx /\ nx < w
                /\ distances[<<ny, nx>>] = 0 - 1
             THEN SpreadNeighbours(h, w, p, i + 1,
                      [distances EXCEPT ![<<ny, nx>>] = distances[p] + 1],
                      Append(queue, <<ny, nx>>))
             ELSE SpreadNeighbours(h, w, p, i + 1, distances, queue)

\* the while loop: queue.popleft() until the queue is empty
RECURSIVE Spread(_, _, _, _)
Spread(h, w, queue, distances) ==
    IF queue = <<>> THEN distances
    ELSE LET r == SpreadNeighbours(h, w, Head(queue), 1, distances, Tail(queue))
         IN  Spread(h, w, r.queue, r.distances)

\* a calculate_distances that seeds the first start position only
calculate_distances_first(h, w, start_positions) ==
    Spread(h, w, <<start_positions[1]>>,
           [p \in {<<y, x>> : y \in 0 .. h - 1, x \in 0 .. w - 1} |->
               IF p = start_positions[1] THEN 0 ELSE 0 - 1])

calculate_distances(h, w, start_positions) ==
    Spread(h, w, start_positions,
           [p \in {<<y, x>> : y \in 0 .. h - 1, x \in 0 .. w - 1} |->
               IF p \in Range(start_positions) THEN 0 ELSE 0 - 1])

(***************************************************************************)
(* Weighted distance field and hero spawn                                  *)
(***************************************************************************)
\* the for loop over the 8 neighbours of one queue entry e = [y, x, d, w];
\* distances holds the cells whose value is below float('inf')
RECURSIVE RelaxNeighbours(_, _, _, _, _)
RelaxNeighbours(g, e, i, distances, queue) ==
    IF i > Len(directions) THEN [distances |-> distances, queue |-> queue]
    ELSE LET ny == e.y + directions[i][1]
             nx == e.x + directions[i][2]
             new_distance == e.d + e.w
         IN  IF /\ InBounds(g, ny, nx)
                /\ \/ <<ny, nx>> \notin DOMAIN distances
                   \/ new_distance < distances[<<ny, nx>>]
             THEN RelaxNeighbours(g, e, i + 1,
                      Put(distances, <<ny, nx>>, new_distance),
                      Append(queue, [y |-> ny, x |-> nx, d |-> new_distance, w |-> e.w]))
             ELSE RelaxNeighbours(g, e, i + 1, distances, queue)

\* the while loop: queue.popleft() until the queue is empty
RECURSIVE Relax(_, _, _)
Relax(g, queue, distances) ==
    IF queue = <<>> THEN distances
    ELSE LET r == RelaxNeighbours(g, Head(queue), 1, distances, Tail(queue))
         IN  Relax(g, r.queue, r.distances)

calculate_weighted_distances(g, occupied_positions) ==
    LET entry(pos) == [y |-> pos[1], x |-> pos[2], d |-> 0,
                       w |-> IF pos \in Keys(g.enemy_positions) THEN ENEMY_WEIGHT
                            ELSE BLOCK_WEIGHT]
        queue == [i \in DOMAIN occupied_positions |-> entry(occupied_positions[i])]
        distances == [p \in Range(occupied_positions) |-> 0]
    IN  Relax(g, queue, distances)

\* the row-major scan of find_farthest_position from cell number i on;
\* best = [inf, max_distance, farthest_position]
RECURSIVE ScanFarthest(_, _, _, _)
ScanFarthest(g, i, distances, best) ==
    IF i >= g.height * g.width THEN best.farthest_position
    ELSE LET y == i \div g.width
             x == i % g.width
             reached == <<y, x>> \in DOMAIN distances
             greater == IF reached
                        THEN ~best.inf /\ distances[<<y, x>>] > best.max_distance
                        ELSE ~best.inf
         IN  IF /\ greater
                /\ <<y, x>> \notin DOMAIN g.block_positions
                /\ <<y, x>> \notin Keys(g.enemy_positions)
             THEN ScanFarthest(g, i + 1, distances,
                      [inf |-> ~reached,
                       max_distance |-> IF reached THEN distances[<<y, x>>]
                                        ELSE best.max_distance,
                       farthest_position |-> <<y, x>>])
             ELSE ScanFarthest(g, i + 1, distances, best)

\* a find_farthest_position that returns the first free cell of the scan
find_farthest_position_first(g) ==
    LET free == {p \in {<<y, x>> : y \in 0 .. g.height - 1, x \in 0 .. g.width - 1} :
                    p \notin DOMAIN g.block_positions /\ p \notin Keys(g.enemy_positions)}
    IN  IF free = {} THEN None ELSE RowMajor(free)[1]

find_farthest_position(g) ==
    LET occupied_positions ==
            [i \in DOMAIN g.enemy_positions |-> g.enemy_positions[i].k]
            \o RowMajor(DOMAIN g.block_positions)
        distances == calculate_weighted_distances(g, occupied_positions)
    IN  ScanFarthest(g, 0, distances,
            [inf |-> FALSE, max_distance |-> 0 - 1, farthest_position |-> None])

(***************************************************************************)
(* Level generation: place_walls, place_blocks, place_enemies, init_game   *)
(***************************************************************************)
\* a place_walls that leaves the right column open
place_walls_open(h, w, blocks) ==
    LET border == {<<0, x>> : x \in 0 .. w - 1}
                  \cup {<<h - 1, x>> : x \in 0 .. w - 1}
                  \cup {<<y, 0>> : y \in 0 .. h - 1}
    IN  [p \in (DOMAIN blocks) \cup border |->
            IF p \in border THEN CHARACTER_MAP.WALL ELSE blocks[p]]

place_walls(h, w, blocks) ==
    LET border == {<<0, x>> : x \in 0 .. w - 1}
                  \cup {<<h - 1, x>> : x \in 0 .. w - 1}
                  \cup {<<y, 0>> : y \in 0 .. h - 1}
                  \cup {<<y, w - 1>> : y \in 0 .. h - 1}
    IN  [p \in (DOMAIN blocks) \cup border |->
            IF p \in border THEN CHARACTER_MAP.WALL ELSE blocks[p]]

\* the cells inside the border
InternalPositions(h, w) == {<<y, x>> : y \in 1 .. h - 2, x \in 1 .. w - 2}

\* the block dicts place_blocks can leave
place_blocks(rng, h, w, blocks) ==
    LET total_internal_cells == (w - 2) * (h - 2)
        num_movable_blocks == (total_internal_cells * BLOCK_COVERAGE_PCT) \div 100
        num_unmovable_blocks == (total_internal_cells * UNMOVABLE_BLOCKS_PCT) \div 100
        skins == Range(MOVABLE_BLOCK_CHARACTERS)
    IN  {[p \in (DOMAIN blocks) \cup Range(movable) \cup Range(unmovable) |->
            IF p \in Range(unmovable) THEN CHARACTER_MAP.WALL
            ELSE IF p \in Range(movable) THEN skin[p]
            ELSE blocks[p]] :
         <<movable, skin, unmovable>> \in
            UNION {UNION {{<<m, s, u>> :
                             u \in random_sample(rng, InternalPositions(h, w) \ Range(m),
                                                 num_unmovable_blocks)} :
                          s \in [Range(m) -> skins]} :
                   m \in random_sample(rng, InternalPositions(h, w), num_movable_blocks)}}

\* the dicts of a place_enemies with draws eggs and hunters
Placed(eggs, hunters, t) ==
    [enemy_positions |->
        [i \in DOMAIN eggs |-> [k |-> eggs[i], v |-> CHARACTER_MAP.EGG]]
        \o [i \in DOMAIN hunters |-> [k |-> hunters[i], v |-> CHARACTER_MAP.HUNTER]],
     egg_positions |-> [p \in Range(eggs) |-> CHARACTER_MAP.EGG],
     hatching_times |->
        [i \in DOMAIN eggs |-> [k |-> eggs[i], v |-> t + HATCHING_TIME]]]

\* a place_enemies that draws the chasers from the cells of the eggs
place_enemies_overlap(rng, h, w, blocks, lvl, t) ==
    LET free_positions == InternalPositions(h, w) \ DOMAIN blocks
    IN  IF Cardinality(free_positions) < NUM_EGGS + lvl + INITIAL_NUM_ENEMIES
        THEN {Placed(<<>>, <<>>, t)}
        ELSE UNION {{Placed(eggs, hunters, t) :
                        hunters \in random_sample(rng, Range(eggs),
                                                  lvl + INITIAL_NUM_ENEMIES)} :
                    eggs \in random_sample(rng, free_positions, NUM_EGGS)}

\* a place_enemies that reduces the counts to the free cells there are
place_enemies_reduced(rng, h, w, blocks, lvl, t) ==
    LET free_positions == InternalPositions(h, w) \ DOMAIN blocks
        free == Cardinality(free_positions)
        num_eggs == IF free < NUM_EGGS THEN free ELSE NUM_EGGS
        num_enemies == IF free - num_eggs < lvl + INITIAL_NUM_ENEMIES
                       THEN free - num_eggs ELSE lvl + INITIAL_NUM_ENEMIES
    IN  UNION {{Placed(eggs, hunters, t) :
                   hunters \in random_sample(rng, free_positions \ Range(eggs), num_enemies)} :
               eggs \in random_sample(rng, free_positions, num_eggs)}

\* a place_enemies with the chasers of the first level at every level
place_enemies_flat(rng, h, w, blocks, lvl, t) ==
    LET free_positions == InternalPositions(h, w) \ DOMAIN blocks
        num_enemies == 1 + INITIAL_NUM_ENEMIES
    IN  IF Cardinality(free_positions) < NUM_EGGS + lvl + INITIAL_NUM_ENEMIES
        THEN {Placed(<<>>, <<>>, t)}
        ELSE {Placed(eggs, hunters, t) :
              <<eggs, hunters>> \in
                 UNION {{<<e, c>> : c \in random_sample(rng, free_positions \ Range(e),
                                                         num_enemies)} :
                        e \in random_sample(rng, free_positions, NUM_EGGS)}}

\* the enemy, egg and hatching dicts place_enemies can leave, at clock time t
place_enemies(rng, h, w, blocks, lvl, t) ==
    LET free_positions == InternalPositions(h, w) \ DOMAIN blocks
        num_enemies == lvl + INITIAL_NUM_ENEMIES
    IN  IF Cardinality(free_positions) < NUM_EGGS + lvl + INITIAL_NUM_ENEMIES
        THEN {Placed(<<>>, <<>>, t)}
        ELSE {Placed(eggs, hunters, t) :
              <<eggs, hunters>> \in
                 UNION {{<<e, c>> : c \in random_sample(rng, free_positions \ Range(e),
                                                         num_enemies)} :
                        e \in random_sample(rng, free_positions, NUM_EGGS)}}

\* what init_game can leave at level lvl and clock time t on a board whose
\* block dict is blocks; hero_pos = None when find_farthest_position finds
\* no free cell (render then raises TypeError)
init_game(rng, h, w, blocks, lvl, t) ==
    {[block_positions |-> b,
      enemy_positions |-> e.enemy_positions,
      egg_positions |-> e.egg_positions,
      hatching_times |-> e.hatching_times,
      hero_pos |-> find_farthest_position(
                      [height |-> h, width |-> w, block_positions |-> b,
                       enemy_positions |-> e.enemy_positions])] :
     <<b, e>> \in UNION {{<<b1, e1>> : e1 \in place_enemies(rng, h, w, b1, lvl, t)} :
                         b1 \in place_blocks(rng, h, w, place_walls(h, w, blocks))}}

(***************************************************************************)
(* Hatching scheduler                                                      *)
(***************************************************************************)
\* jitters of up to twice HATCHING_TIME
Jitters_long == {0, HATCHING_TIME \div 2, 2 * HATCHING_TIME}

\* the values random.uniform(0, HATCHING_TIME) is drawn from
Jitters == {0, HATCHING_TIME \div 2, HATCHING_TIME}

\* a hatch check that takes an entry one second before its hatch time
hatch_eggs_early(g, t, random_hatch_time) ==
    LET new_crushers ==
            SelectSeq(g.hatching_times,
                LAMBDA e : /\ t + 1 >= e.v
                           /\ t + 1 >= e.v + random_hatch_time[e.k]
                           /\ e.k \in DOMAIN g.egg_positions)
        RECURSIVE Update(_, _, _)
        Update(i, eggs, enemies) ==
            IF i > Len(new_crushers) THEN [eggs |-> eggs, enemies |-> enemies]
            ELSE LET pos == new_crushers[i].k
                 IN  IF pos \in DOMAIN eggs
                     THEN Update(i + 1, Pop(eggs, pos),
                                 Set(enemies, pos, CHARACTER_MAP.CRUSHER))
                     ELSE Update(i + 1, eggs, enemies)
        u == Update(1, g.egg_positions, g.enemy_positions)
    IN  [egg_positions |-> u.eggs,
         enemy_positions |-> u.enemies,
         hatching_times |->
            SelectSeq(g.hatching_times, LAMBDA e : e.k \notin Keys(new_crushers))]

\* hatch_eggs at clock time t; random_hatch_time[pos] is the jitter drawn
\* for the entry of pos
hatch_eggs(g, t, random_hatch_time) ==
    LET new_crushers ==
            SelectSeq(g.hatching_times,
                LAMBDA e : /\ t >= e.v
                           /\ t >= e.v + random_hatch_time[e.k]
                           /\ e.k \in DOMAIN g.egg_positions)
        RECURSIVE Update(_, _, _)
        Update(i, eggs, enemies) ==
            IF i > Len(new_crushers) THEN [eggs |-> eggs, enemies |-> enemies]
            ELSE LET pos == new_crushers[i].k
                 IN  IF pos \in DOMAIN eggs
                     THEN Update(i + 1, Pop(eggs, pos),
                                 Set(enemies, pos, CHARACTER_MAP.CRUSHER))
                     ELSE Update(i + 1, eggs, enemies)
        u == Update(1, g.egg_positions, g.enemy_positions)
    IN  [egg_positions |-> u.eggs,
         enemy_positions |-> u.enemies,
         hatching_times |->
            SelectSeq(g.hatching_times, LAMBDA e : e.k \notin Keys(new_crushers))]

(***************************************************************************)
(* Pathfinder: bfs_find_path                                               *)
(***************************************************************************)
\* a neighbour loop that takes the four orthogonal directions only
RECURSIVE VisitNeighbours_orthogonal(_, _, _, _, _)
VisitNeighbours_orthogonal(g, current, i, visited, queue) ==
    IF i > 4 THEN [visited |-> visited, queue |-> queue]
    ELSE LET neighbor == <<current[1] + directions[i][1], current[2] + directions[i][2]>>
         IN  IF /\ InBounds(g, neighbor[1], neighbor[2])
                /\ neighbor \notin DOMAIN visited
                /\ neighbor \notin DOMAIN g.block_positions
                /\ neighbor \notin Keys(g.enemy_positions)
             THEN VisitNeighbours_orthogonal(g, current, i + 1,
                      Put(visited, neighbor, current), Append(queue, neighbor))
             ELSE VisitNeighbours_orthogonal(g, current, i + 1, visited, queue)

\* the for loop over the neighbours of current
RECURSIVE VisitNeighbours(_, _, _, _, _)
VisitNeighbours(g, current, i, visited, queue) ==
    IF i > Len(directions) THEN [visited |-> visited, queue |-> queue]
    ELSE LET neighbor == <<current[1] + directions[i][1], current[2] + directions[i][2]>>
         IN  IF /\ InBounds(g, neighbor[1], neighbor[2])
                /\ neighbor \notin DOMAIN visited
                /\ neighbor \notin DOMAIN g.block_positions
                /\ neighbor \notin Keys(g.enemy_positions)
             THEN VisitNeighbours(g, current, i + 1, Put(visited, neighbor, current),
                                  Append(queue, neighbor))
             ELSE VisitNeighbours(g, current, i + 1, visited, queue)

\* path.append(current); current = visited[current], until current is None
RECURSIVE PathBack(_, _)
PathBack(current, visited) ==
    IF current = None THEN <<>>
    ELSE PathBack(visited[current], visited) \o <<current>>

RECURSIVE BfsLoop(_, _, _, _)
BfsLoop(g, queue, visited, goal) ==
    IF queue = <<>> THEN <<>>
    ELSE LET current == Head(queue)
         IN  IF current = goal THEN PathBack(current, visited)
             ELSE LET r == VisitNeighbours(g, current, 1, visited, Tail(queue))
                  IN  BfsLoop(g, r.queue, r.visited, goal)

bfs_find_path(g, start, goal) ==
    BfsLoop(g, <<start>>, [p \in {start} |-> None], goal)

(***************************************************************************)
(* Pursuit: is_within_CRUSHER_radius, move_enemies                         *)
(***************************************************************************)
\* sqrt(a) <= r  iff  a <= r * r, for integers a, r >= 0
is_within_CRUSHER_radius(pos, hero) ==
    (pos[1] - hero[1]) * (pos[1] - hero[1]) + (pos[2] - hero[2]) * (pos[2] - hero[2])
        <= CRUSHER_RADIUS * CRUSHER_RADIUS

\* the directions a shuffled list can offer first among the free neighbours
FreeSteps(g, pos) ==
    {d \in Directions :
        LET next_pos == <<pos[1] + d[1], pos[2] + d[2]>>
        IN  /\ InBounds(g, next_pos[1], next_pos[2])
            /\ next_pos \notin DOMAIN g.block_positions
            /\ next_pos \notin Keys(g.enemy_positions)
            /\ next_pos \notin DOMAIN g.egg_positions}

\* move_enemies' for loop from entry i of the snapshot on: the set of
\* [g, new_positions] it can end with (g is the board, which move_entity
\* may change; g.enemy_positions stays self.enemy_positions)
RECURSIVE MoveEach(_, _, _, _, _)
MoveEach(items, i, g, hero, new_positions) ==
    IF i > Len(items) THEN {[g |-> g, new_positions |-> new_positions]}
    ELSE LET pos == items[i].k
             HUNTER_char == items[i].v
             path == bfs_find_path(g, pos, hero)
             toward == move_entity(g, pos, path[2][1] - pos[1], path[2][2] - pos[2])
         IN  IF HUNTER_char = CHARACTER_MAP.EGG
             THEN MoveEach(items, i + 1, g, hero, Set(new_positions, pos, HUNTER_char))
             ELSE IF HUNTER_char = CHARACTER_MAP.CRUSHER
             THEN IF is_within_CRUSHER_radius(pos, hero)
                  THEN IF Len(path) > 1
                       THEN MoveEach(items, i + 1, toward.g, hero,
                                     Set(new_positions, toward.pos, HUNTER_char))
                       ELSE IF FreeSteps(g, pos) = {}
                            THEN MoveEach(items, i + 1, g, hero, new_positions)
                            ELSE UNION {LET r == move_entity(g, pos, d[1], d[2])
                                        IN  MoveEach(items, i + 1, r.g, hero,
                                               Set(new_positions, r.pos, HUNTER_char)) :
                                        d \in FreeSteps(g, pos)}
                  ELSE MoveEach(items, i + 1, g, hero, new_positions)
             ELSE IF Len(path) > 1
                  THEN IF /\ path[2] \notin DOMAIN g.block_positions
                          /\ path[2] \notin Keys(new_positions)
                       THEN MoveEach(items, i + 1, g, hero,
                                     Set(new_positions, path[2], HUNTER_char))
                       ELSE MoveEach(items, i + 1, g, hero,
                                     Set(new_positions, pos, HUNTER_char))
                  ELSE MoveEach(items, i + 1, g, hero, Set(new_positions, pos, HUNTER_char))

\* a move_enemies in which the eggs walk as chasers do
move_enemies_eggs(g, hero) ==
    {[r.g EXCEPT !.enemy_positions = r.new_positions] :
        r \in MoveEach([i \in DOMAIN g.enemy_positions |->
                           [k |-> g.enemy_positions[i].k, v |-> CHARACTER_MAP.HUNTER]],
                       1, g, hero, <<>>)}

\* a move_enemies in which every hunter stays where it is
move_enemies_still(g, hero) == {g}

\* the boards move_enemies can leave
move_enemies(g, hero) ==
    {[r.g EXCEPT !.enemy_positions = r.new_positions] :
        r \in MoveEach(g.enemy_positions, 1, g, hero, <<>>)}

(***************************************************************************)
(* Bounds of the model                                                     *)
(***************************************************************************)
MaxMoves == 1           \* hero move attempts per game (self.moves)
MaxLevel == 2           \* levels per game
MaxPlayTime == 1        \* seconds of play outside pauses
MaxPauses == 1          \* pauses, each of HATCHING_TIME seconds

\* the terminals of Spec, as <<height, width>> after the width is halved
TerminalSizes == {<<3, 7>>, <<4, 6>>}

(***************************************************************************)
(* Collision handling and session transitions                              *)
(***************************************************************************)
\* a collision handler that takes the life and leaves the hero where it is
CheckCollisions_stay ==
    IF hero_pos \in Keys(enemy_positions)
    THEN /\ lives' = lives - 1
         /\ hero_pos' = hero_pos
         /\ pc' = IF lives - 1 > 0 THEN "complete" ELSE "gameover"
    ELSE /\ pc' = "complete"
         /\ UNCHANGED <<lives, hero_pos>>

\* check_collisions and handle_hero_collision; end_game's prompt is pc = "gameover"
CheckCollisions ==
    IF hero_pos \in Keys(enemy_positions)
    THEN /\ lives' = lives - 1
         /\ IF lives - 1 > 0
            THEN /\ hero_pos' = find_farthest_position(Board)
                 /\ pc' = IF hero_pos' = None THEN "crashed" ELSE "complete"
            ELSE /\ hero_pos' = hero_pos
                 /\ pc' = "gameover"
    ELSE /\ pc' = "complete"
         /\ UNCHANGED <<lives, hero_pos>>

\* self.init_game() at level lvl, with the random source rng
InitGame(rng, lvl) ==
    \E o \in init_game(rng, height, width, block_positions, lvl, now) :
        /\ block_positions' = o.block_positions
        /\ enemy_positions' = o.enemy_positions
        /\ egg_positions' = o.egg_positions
        /\ hatching_times' = o.hatching_times
        /\ hero_pos' = o.hero_pos
        /\ pc' = IF o.hero_pos = None THEN "crashed" ELSE "input"

(***************************************************************************)
(* main_loop, one action per step of an iteration                          *)
(***************************************************************************)
\* handle_input: no key
NoInput ==
    /\ pc = "input"
    /\ pc' = "enemies"
    /\ UNCHANGED <<tick_count, height, width, hero_pos, boardVars, sessionVars, clockVars>>

\* handle_input: arrow keys giving (move_y, move_x), then move_hero
InputMove(dy, dx) ==
    /\ pc = "input"
    /\ MoveHero(dy, dx)
    /\ pc' = "enemies"
    /\ UNCHANGED <<tick_count, height, width, clockVars>>

\* handle_input: ESC, pause_game until space is pressed dt seconds later
InputPause(dt) ==
    /\ pc = "input"
    /\ now' = now + dt
    /\ paused_time' = paused_time + dt
    /\ pc' = "enemies"
    /\ UNCHANGED <<tick_count, height, width, hero_pos, boardVars, sessionVars, start_time,
                   current_time, last_hunter_move_time, last_hatch_check_time,
                   moved_at, checked_at>>

\* handle_input: q, confirm_quit answered y
InputQuit ==
    /\ pc = "input"
    /\ pc' = "exit"
    /\ UNCHANGED <<tick_count, height, width, hero_pos, boardVars, sessionVars, clockVars>>

\* the gated enemy-move pass
EnemyStep ==
    /\ pc = "enemies"
    /\ pc' = "hatch"
    /\ IF (current_time - last_hunter_move_time) * 1000 >= HUNTER_MOVE_DELAY
       THEN /\ \E b \in move_enemies(Board, hero_pos) :
                   /\ block_positions' = b.block_positions
                   /\ enemy_positions' = b.enemy_positions
                   /\ egg_positions' = b.egg_positions
                   /\ total_squished_enemies' = b.total_squished_enemies
                   /\ score' = b.score
            /\ last_hunter_move_time' = current_time
            /\ moved_at' = now
       ELSE UNCHANGED <<block_positions, enemy_positions, egg_positions,
                        total_squished_enemies, score, last_hunter_move_time,
                        moved_at>>
    /\ UNCHANGED <<tick_count, height, width, hero_pos, hatching_times, level, lives, moves,
                   start_time, paused_time, now, current_time, last_hatch_check_time,
                   checked_at>>

\* the gated hatch check
HatchStep ==
    /\ pc = "hatch"
    /\ pc' = "collide"
    /\ IF current_time - last_hatch_check_time >= 1
       THEN /\ \E random_hatch_time \in [Keys(hatching_times) -> Jitters] :
                   LET h == hatch_eggs([egg_positions |-> egg_positions,
                                        enemy_positions |-> enemy_positions,
                                        hatching_times |-> hatching_times],
                                       now, random_hatch_time)
                   IN  /\ egg_positions' = h.egg_positions
                       /\ enemy_positions' = h.enemy_positions
                       /\ hatching_times' = h.hatching_times
            /\ last_hatch_check_time' = current_time
            /\ checked_at' = now
       ELSE UNCHANGED <<egg_positions, enemy_positions, hatching_times,
                        last_hatch_check_time, checked_at>>
    /\ UNCHANGED <<tick_count, height, width, hero_pos, block_positions, sessionVars,
                   start_time, paused_time, now, current_time, last_hunter_move_time,
                   moved_at>>

\* update_game_state
CollisionStep ==
    /\ pc = "collide"
    /\ CheckCollisions
    /\ UNCHANGED <<tick_count, height, width, boardVars, level, total_squished_enemies, moves,
                   score, clockVars>>

\* enemies are left: time.sleep, and the next iteration reads the clock
Sleep(dt) ==
    /\ pc = "complete"
    /\ enemy_positions # <<>>
    /\ now' = now + dt
    /\ current_time' = now + dt
    /\ pc' = "input"
    /\ UNCHANGED <<tick_count, height, width, hero_pos, boardVars, sessionVars, start_time,
                   paused_time, last_hunter_move_time, last_hatch_check_time,
                   moved_at, checked_at>>

\* a level check that never looks at the hunter set
LevelComplete_early(rng) ==
    /\ pc = "complete"
    /\ score' = score + LEVEL_SCORE
    /\ level' = level + 1
    /\ InitGame(rng, level + 1)
    /\ current_time' = now
    /\ UNCHANGED <<tick_count, height, width, lives, total_squished_enemies, moves, start_time,
                   paused_time, now, last_hunter_move_time, last_hatch_check_time,
                   moved_at, checked_at>>

\* no enemy is left: display_level_completion answered with space
LevelComplete(rng) ==
    /\ pc = "complete"
    /\ enemy_positions = <<>>
    /\ score' = score + LEVEL_SCORE
    /\ level' = level + 1
    /\ InitGame(rng, level + 1)
    /\ current_time' = now
    /\ UNCHANGED <<tick_count, height, width, lives, total_squished_enemies, moves, start_time,
                   paused_time, now, last_hunter_move_time, last_hatch_check_time,
                   moved_at, checked_at>>

\* no enemy is left: display_level_completion answered with q
LevelQuit ==
    /\ pc = "complete"
    /\ enemy_positions = <<>>
    /\ score' = score + LEVEL_SCORE
    /\ pc' = "exit"
    /\ UNCHANGED <<tick_count, height, width, hero_pos, boardVars, level, lives,
                   total_squished_enemies, moves, clockVars>>

\* end_game answered y: reset_game, then the nested main_loop
NewGame(rng) ==
    /\ pc = "gameover"
    /\ level' = 1
    /\ lives' = RESET_LIVES
    /\ score' = 0
    /\ total_squished_enemies' = 0
    /\ moves' = 0
    /\ start_time' = now
    /\ InitGame(rng, 1)
    /\ current_time' = now
    /\ last_hunter_move_time' = now
    /\ last_hatch_check_time' = now
    /\ moved_at' = now
    /\ checked_at' = now
    /\ UNCHANGED <<tick_count, height, width, paused_time, now>>

\* end_game answered n or q
EndGame ==
    /\ pc = "gameover"
    /\ pc' = "exit"
    /\ UNCHANGED <<tick_count, height, width, hero_pos, boardVars, sessionVars, clockVars>>

(***************************************************************************)
(* The game: Game(stdscr) followed by main_loop                            *)
(***************************************************************************)
\* __init__ on a terminal of the given size, at clock time 0
Construct(rng, size) ==
    /\ tick_count = 0
    /\ height = size[1]
    /\ width = size[2]
    /\ level = 1
    /\ lives = INITIAL_LIVES
    /\ total_squished_enemies = 0
    /\ moves = 0
    /\ score = 0
    /\ start_time = 0
    /\ paused_time = 0
    /\ now = 0
    /\ current_time = 0
    /\ last_hunter_move_time = 0
    /\ last_hatch_check_time = 0
    /\ moved_at = 0
    /\ checked_at = 0
    /\ \E o \in init_game(rng, size[1], size[2], EmptyDict, 1, 0) :
        /\ block_positions = o.block_positions
        /\ enemy_positions = o.enemy_positions
        /\ egg_positions = o.egg_positions
        /\ hatching_times = o.hatching_times
        /\ hero_pos = o.hero_pos
        /\ pc = IF o.hero_pos = None THEN "crashed" ELSE "input"

\* Spec: a session on a small terminal with the random source "run", played
\* until it is quit or the game is over
Init == \E size \in TerminalSizes : Construct("run", size)

Next ==
    \/ NoInput
    \/ \E d \in Directions : moves < MaxMoves /\ InputMove(d[1], d[2])
    \/ paused_time < MaxPauses * HATCHING_TIME /\ InputPause(HATCHING_TIME)
    \/ InputQuit
    \/ EnemyStep
    \/ HatchStep
    \/ CollisionStep
    \/ \E dt \in {0, 1} : (now + dt) - paused_time <= MaxPlayTime /\ Sleep(dt)
    \/ level < MaxLevel /\ LevelComplete("run")
    \/ LevelQuit
    \/ EndGame

Spec == Init /\ [][Next]_vars

(***************************************************************************)
(* SpecGen: the game left alone at clock time 0, with the random source    *)
(* "all": every board init_game can generate on the terminals of Spec      *)
(***************************************************************************)
InitGen == \E size \in TerminalSizes : Construct("all", size)

NextGen ==
    \/ NoInput
    \/ InputQuit
    \/ EnemyStep
    \/ HatchStep
    \/ CollisionStep
    \/ Sleep(0)
    \/ level < MaxLevel /\ LevelComplete("all")
    \/ LevelQuit

SpecGen == InitGen /\ [][NextGen]_vars

(***************************************************************************)
(* SpecSession: sessions in which the player leaves the hero to the        *)
(* hunters and asks for a new game when the game is over                   *)
(***************************************************************************)
MaxSessionTime == 2     \* seconds of a session

NextSession ==
    \/ NoInput
    \/ EnemyStep
    \/ HatchStep
    \/ CollisionStep
    \/ \E dt \in {0, 1} : now + dt <= MaxSessionTime /\ Sleep(dt)
    \/ NewGame("run")
    \/ EndGame

SpecSession == Init /\ [][NextSession]_vars

(***************************************************************************)
(* Boards of play given by their occupants                                 *)
(***************************************************************************)
FREE == "  "
STALE == "xx"               \* a free cell still listed in egg_positions
STALE_BLOCK == "xB"         \* a "bB" block on a cell still listed in egg_positions

\* the play on an h x w terminal at level 1 and clock time 0 in which occ (an
\* ordered dict of positions to the marks above or to characters) are the
\* occupants; as place_blocks puts num_movable_blocks movable blocks, the
\* first cells of fill hold the blocks that occ lacks
Scene(h, w, occ, fill) ==
    LET IsBlock(e) == e.v \in Range(MOVABLE_BLOCK_CHARACTERS) \cup {STALE_BLOCK}
        IsEgg(e) == e.v = CHARACTER_MAP.EGG
        IsHunter(e) == e.v \in {CHARACTER_MAP.HUNTER, CHARACTER_MAP.CRUSHER}
        IsListed(e) == e.v \in {CHARACTER_MAP.EGG, STALE, STALE_BLOCK}
        blocks == SelectSeq(occ, IsBlock)
        listed == SelectSeq(occ, IsListed)
        num_movable_blocks == ((w - 2) * (h - 2) * BLOCK_COVERAGE_PCT) \div 100
        filler == SubSeq(fill, 1, num_movable_blocks - Len(blocks))
        walls == place_walls(h, w, EmptyDict)
    IN  [block_positions |->
            [p \in (DOMAIN walls) \cup Keys(blocks) \cup Range(filler) |->
                IF p \in Keys(blocks)
                THEN IF Get(blocks, p) = STALE_BLOCK THEN MOVABLE_BLOCK_CHARACTERS[1]
                     ELSE Get(blocks, p)
                ELSE IF p \in Range(filler) THEN MOVABLE_BLOCK_CHARACTERS[1]
                ELSE walls[p]],
         enemy_positions |-> SelectSeq(occ, IsEgg) \o SelectSeq(occ, IsHunter),
         egg_positions |-> [p \in Keys(listed) |-> CHARACTER_MAP.EGG],
         hatching_times |->
            [i \in DOMAIN listed |-> [k |-> listed[i].k, v |-> HATCHING_TIME]]]

\* the game in play on the board scene with the hero at hero
InPlay(size, hero, scene) ==
    /\ tick_count = 0
    /\ height = size[1]
    /\ width = size[2]
    /\ hero_pos = hero
    /\ block_positions = scene.block_positions
    /\ enemy_positions = scene.enemy_positions
    /\ egg_positions = scene.egg_positions
    /\ hatching_times = scene.hatching_times
    /\ level = 1
    /\ lives = INITIAL_LIVES
    /\ total_squished_enemies = 0
    /\ moves = 0
    /\ score = 0
    /\ start_time = 0
    /\ paused_time = 0
    /\ now = 0
    /\ current_time = 0
    /\ last_hunter_move_time = 0
    /\ last_hatch_check_time = 0
    /\ moved_at = 0
    /\ checked_at = 0
    /\ pc = "input"

(***************************************************************************)
(* SpecPush: one hero move on every board of a family.  The hero stands on *)
(* one of HeroCells; the first MaxRay cells of one of its eight lines hold *)
(* any marks of RayMarks, and the blocks the board lacks are off the lines *)
(***************************************************************************)
MaxRay == 4             \* cells of a line that hold something
MaxPushMoves == 1       \* hero moves per board

PushSize == <<7, 11>>
HeroCells == {<<5, 5>>, <<1, 5>>}
RayMarks ==
    {FREE, MOVABLE_BLOCK_CHARACTERS[1], MOVABLE_BLOCK_CHARACTERS[2],
     CHARACTER_MAP.HUNTER, CHARACTER_MAP.EGG, STALE, STALE_BLOCK}

RayCell(hero, d, i) == <<hero[1] + i * d[1], hero[2] + i * d[2]>>

\* the cells of the line from hero in direction d that are inside the border,
\* MaxRay at most
RayLen(hero, d) ==
    Cardinality({i \in 1 .. MaxRay :
                    RayCell(hero, d, i) \in InternalPositions(PushSize[1], PushSize[2])})

\* the internal cells on no line of a cell of HeroCells
OffRay ==
    {p \in InternalPositions(PushSize[1], PushSize[2]) :
        \A c \in HeroCells :
            /\ p # c
            /\ \A d \in Directions : \A i \in 1 .. PushSize[1] + PushSize[2] :
                    p # RayCell(c, d, i)}

Count(content, marks) == Cardinality({i \in DOMAIN content : content[i] \in marks})

InitPush ==
    \E hero \in HeroCells : \E d \in Directions :
        \E content \in [1 .. RayLen(hero, d) -> RayMarks] :
            /\ Count(content, {CHARACTER_MAP.HUNTER}) <= INITIAL_NUM_ENEMIES + 1
            /\ Count(content, {CHARACTER_MAP.EGG, STALE, STALE_BLOCK}) <= NUM_EGGS
            /\ InPlay(PushSize, hero,
                      Scene(PushSize[1], PushSize[2],
                            SelectSeq([i \in DOMAIN content |->
                                          [k |-> RayCell(hero, d, i), v |-> content[i]]],
                                      LAMBDA e : e.v # FREE),
                            RowMajor(OffRay)))

NextPush == \E d \in Directions : moves < MaxPushMoves /\ InputMove(d[1], d[2])

SpecPush == InitPush /\ [][NextPush]_vars

(***************************************************************************)
(* SpecStale: MaxStaleMoves hero moves at clock time 0 on boards that the  *)
(* constructor generates on a 7 x 6 terminal                               *)
(***************************************************************************)
MaxStaleMoves == 3

StaleSize == <<7, 6>>

\* the draws of place_blocks and place_enemies: six movable blocks, three
\* eggs, two chasers
StaleDraws ==
    {<< [k |-> <<2, 2>>, v |-> s1], [k |-> <<2, 3>>, v |-> s2],
        [k |-> <<4, 4>>, v |-> s1], [k |-> <<5, 3>>, v |-> s2],
        [k |-> <<4, 1>>, v |-> s1], [k |-> <<4, 2>>, v |-> s2],
        [k |-> <<3, 3>>, v |-> CHARACTER_MAP.EGG],
        [k |-> <<4, 3>>, v |-> c1], [k |-> <<5, 4>>, v |-> c2],
        [k |-> <<5, 1>>, v |-> c3], [k |-> <<5, 2>>, v |-> CHARACTER_MAP.HUNTER] >> :
     s1 \in Range(MOVABLE_BLOCK_CHARACTERS), s2 \in Range(MOVABLE_BLOCK_CHARACTERS),
     <<c1, c2, c3>> \in
        {<<CHARACTER_MAP.EGG, CHARACTER_MAP.EGG, CHARACTER_MAP.HUNTER>>,
         <<CHARACTER_MAP.HUNTER, CHARACTER_MAP.EGG, CHARACTER_MAP.EGG>>}}

\* __init__ when the random source gives the draws of StaleDraws
InitStale ==
    \E occ \in StaleDraws :
        LET scene == Scene(StaleSize[1], StaleSize[2], occ, <<>>)
        IN  InPlay(StaleSize,
                   find_farthest_position(
                       [height |-> StaleSize[1], width |-> StaleSize[2],
                        block_positions |-> scene.block_positions,
                        enemy_positions |-> scene.enemy_positions]),
                   scene)

NextStale ==
    \/ \E d \in Directions : moves < MaxStaleMoves /\ InputMove(d[1], d[2])
    \/ EnemyStep
    \/ HatchStep
    \/ CollisionStep
    \/ Sleep(0)

SpecStale == InitStale /\ [][NextStale]_vars

(***************************************************************************)
(* Properties of the movement resolver                                     *)
(***************************************************************************)
Movable(p) ==
    p \in DOMAIN block_positions /\ block_positions[p] # CHARACTER_MAP.WALL

\* the number of consecutive movable blocks on the line from p in direction
\* d, the first of them next to p
ChainLen(p, d) ==
    CHOOSE k \in 0 .. height + width :
        /\ \A i \in 1 .. k : Movable(RayCell(p, d, i))
        /\ ~Movable(RayCell(p, d, k + 1))

\* block_positions with the first k blocks of that line one cell further
ChainShifted(p, d, k) ==
    LET from == {RayCell(p, d, i) : i \in 1 .. k}
        to == {RayCell(p, d, i + 1) : i \in 1 .. k}
    IN  [q \in ((DOMAIN block_positions) \ from) \cup to |->
            IF q \in to THEN block_positions[<<q[1] - d[1], q[2] - d[2]>>]
            ELSE block_positions[q]]

\* C1: a hero move into a chain of k >= 1 movable blocks either moves all k
\* blocks exactly one cell in the direction of the move and puts the hero in
\* the first block's old cell, or moves no block and leaves the hero where it
\* was
C1_PushAtomic ==
    [][\A d \in Directions :
          MoveHero(d[1], d[2]) /\ ChainLen(hero_pos, d) >= 1 =>
              \/ /\ hero_pos' = RayCell(hero_pos, d, 1)
                 /\ block_positions' = ChainShifted(hero_pos, d, ChainLen(hero_pos, d))
              \/ /\ hero_pos' = hero_pos
                 /\ block_positions' = block_positions]_vars

\* the hero at (5,5) has pushed the blocks of (5,6), (5,7) and (5,8) to the wall
W_C1 ==
    /\ moves = 1
    /\ hero_pos = <<5, 6>>
    /\ <<5, 6>> \notin DOMAIN block_positions
    /\ \A x \in 7 .. 9 : Movable(<<5, x>>)
    /\ block_positions[<<5, 7>>] # block_positions[<<5, 8>>]

\* the cases in which a hero move in direction d is Blocked: the target cell
\* is out of bounds, a Wall, a Hunter or an Egg, or the chain that starts at
\* the target ends at a Wall or at the grid edge
Blocked(d) ==
    LET t == RayCell(hero_pos, d, 1)
        k == ChainLen(hero_pos, d)
        e == RayCell(hero_pos, d, k + 1)
    IN  \/ ~InBounds(Board, t[1], t[2])
        \/ t \in DOMAIN block_positions /\ block_positions[t] = CHARACTER_MAP.WALL
        \/ t \in Keys(enemy_positions)
        \/ /\ k >= 1
           /\ \/ ~InBounds(Board, e[1], e[2])
              \/ e \in DOMAIN block_positions /\ block_positions[e] = CHARACTER_MAP.WALL

\* C2: a Blocked hero move leaves the hero position, every block position,
\* the hunter set, the egg set and the squish counter as they were
C2_BlockedUnchanged ==
    [][\A d \in Directions :
          MoveHero(d[1], d[2]) /\ Blocked(d) =>
              UNCHANGED <<hero_pos, block_positions, enemy_positions, egg_positions,
                          total_squished_enemies>>]_vars

\* the hero at (5,5) has tried to push four blocks that stand against the wall
W_C2 ==
    /\ moves = 1
    /\ hero_pos = <<5, 5>>
    /\ \A x \in 6 .. 9 : Movable(<<5, x>>)

\* the case of C3 and C4 in direction d: the chain that starts at the hero's
\* target is followed by a Hunter or Egg, and the cell beyond that is a Block
SquishCase(d) ==
    LET k == ChainLen(hero_pos, d)
    IN  /\ k >= 1
        /\ RayCell(hero_pos, d, k + 1) \in Keys(enemy_positions)
        /\ Movable(RayCell(hero_pos, d, k + 2))

\* C3: when the chain the hero pushes is followed by a Hunter or Egg and then
\* a Block, the push succeeds: the Hunter/Egg leaves the hunter set, the squish
\* counter grows by one, the last block of the chain ends in the Hunter/Egg's
\* cell and the hero advances one cell
CE_C3 ==
    [][\A d \in Directions :
          MoveHero(d[1], d[2]) /\ SquishCase(d) =>
              LET k == ChainLen(hero_pos, d)
                  h == RayCell(hero_pos, d, k + 1)
              IN  /\ hero_pos' = RayCell(hero_pos, d, 1)
                  /\ h \notin Keys(enemy_positions')
                  /\ total_squished_enemies' = total_squished_enemies + 1
                  /\ h \in DOMAIN block_positions'
                  /\ block_positions'[h] = block_positions[RayCell(hero_pos, d, k)]]_vars

\* C4, as the code has it: when a push squishes the Hunter/Egg between the
\* chain and a block, the chain ends there: its blocks move one cell, the
\* last of them into the Hunter/Egg's cell, and the block beyond the Hunter/Egg
\* and every other block stay where they were
A_C4 ==
    [][\A d \in Directions :
          /\ MoveHero(d[1], d[2])
          /\ SquishCase(d)
          /\ total_squished_enemies' = total_squished_enemies + 1
          => LET k == ChainLen(hero_pos, d)
                 b == RayCell(hero_pos, d, k + 2)
             IN  /\ block_positions' = ChainShifted(hero_pos, d, k)
                 /\ block_positions'[b] = block_positions[b]]_vars

\* hero at (5,5), blocks at (5,6) and (5,8), hunter at (5,7): after the push
\* the blocks are at (5,7) and (5,8)
W_C4 ==
    /\ moves = 1
    /\ total_squished_enemies = 1
    /\ hero_pos = <<5, 6>>
    /\ Movable(<<5, 7>>)
    /\ Movable(<<5, 8>>)
    /\ <<5, 9>> \notin DOMAIN block_positions
    /\ enemy_positions = <<>>

\* C4: when a push squishes the Hunter/Egg between the chain and a block, the
\* block beyond the Hunter/Egg also moves one cell in the push direction
CE_C4 ==
    [][\A d \in Directions :
          /\ MoveHero(d[1], d[2])
          /\ SquishCase(d)
          /\ total_squished_enemies' = total_squished_enemies + 1
          => LET k == ChainLen(hero_pos, d)
                 b == RayCell(hero_pos, d, k + 2)
                 c == RayCell(hero_pos, d, k + 3)
             IN  /\ c \in DOMAIN block_positions'
                 /\ block_positions'[c] = block_positions[b]]_vars

(***************************************************************************)
(* Properties of the board                                                 *)
(***************************************************************************)
\* the eggs that a push has squished: out of the hunter set, but left in
\* egg_positions and hatching_times by push_blocks
SquishedEggs == (DOMAIN egg_positions) \ Keys(enemy_positions)

\* C5: a hunter squished during a push is absent from the hunter set for the
\* rest of the level: no hatch pass puts a hunter on the cell of a squished egg
CE_C5 ==
    [][pc = "hatch" => \A p \in SquishedEggs : p \notin Keys(enemy_positions')]_vars

\* C6: at the start of every tick no cell is both a block or wall cell and a
\* hunter cell, and the hero's cell is no block or wall cell
CE_C6 ==
    pc = "input" =>
        /\ Keys(enemy_positions) \cap DOMAIN block_positions = {}
        /\ hero_pos \notin DOMAIN block_positions

Border ==
    {p \in (0 .. height - 1) \X (0 .. width - 1) :
        p[1] \in {0, height - 1} \/ p[2] \in {0, width - 1}}

\* C7: in every reachable state every cell of row 0, row height-1, column 0
\* and column width-1 is a Wall
C7_BorderWalls ==
    \A p \in Border :
        p \in DOMAIN block_positions /\ block_positions[p] = CHARACTER_MAP.WALL

\* on the 4 x 6 terminal the hero has pushed two blocks to the right wall and
\* squished the hunter that stood against it
W_C7 ==
    /\ height = 4
    /\ moves = 1
    /\ total_squished_enemies = 1
    /\ hero_pos = <<1, 2>>
    /\ Movable(<<1, 3>>)
    /\ Movable(<<1, 4>>)

Chasers ==
    {enemy_positions[i].k :
        i \in {j \in DOMAIN enemy_positions :
                  enemy_positions[j].v = CHARACTER_MAP.HUNTER}}

\* C8: on the boards as init_game leaves them (SpecGen changes none), on the
\* first level and on later ones, the Egg cells, the Chaser cells and the
\* block and wall cells are pairwise disjoint, no two hunters share a cell,
\* and the hero's spawn cell is none of them
C8_SpawnDisjoint ==
    /\ (DOMAIN egg_positions) \cap Chasers = {}
    /\ (DOMAIN egg_positions) \subseteq Keys(enemy_positions)
    /\ Len(enemy_positions) = Cardinality(Keys(enemy_positions))
    /\ Keys(enemy_positions) \cap DOMAIN block_positions = {}
    /\ hero_pos # None =>
           /\ hero_pos \notin Keys(enemy_positions)
           /\ hero_pos \notin DOMAIN block_positions
           /\ hero_pos \in InternalPositions(height, width)

\* level 1 on the 4 x 6 terminal: two blocks, three eggs, two chasers and the
\* hero on the eight internal cells
W_C8 ==
    /\ height = 4
    /\ level = 1
    /\ Cardinality(DOMAIN egg_positions) = NUM_EGGS
    /\ Cardinality(Chasers) = 1 + INITIAL_NUM_ENEMIES
    /\ hero_pos # None

InteriorBlocks == (DOMAIN block_positions) \cap InternalPositions(height, width)

\* the interior blocks that one place_blocks samples
NumBlocks ==
    ((width - 2) * (height - 2) * BLOCK_COVERAGE_PCT) \div 100
    + ((width - 2) * (height - 2) * UNMOVABLE_BLOCKS_PCT) \div 100

\* C9: on a level transition the board is rebuilt: its interior blocks are
\* those the new generation samples, none is left from the level before
CE_C9 ==
    [][level' = level + 1 => Cardinality(InteriorBlocks') = NumBlocks]_vars

\* the free interior cells are fewer than the eggs and chasers requested
Insufficient ==
    Cardinality(InternalPositions(height, width) \ DOMAIN block_positions)
        < NUM_EGGS + level + INITIAL_NUM_ENEMIES

MaxPathChasers == 2

PathSize == <<4, 6>>
PathMarks == {FREE, MOVABLE_BLOCK_CHARACTERS[1], CHARACTER_MAP.HUNTER}

\* the main loop before the enemy-move pass of the iteration at clock time t,
\* nothing having moved yet
AtPass(size, hero, scene, t) ==
    /\ tick_count = 0
    /\ height = size[1]
    /\ width = size[2]
    /\ hero_pos = hero
    /\ block_positions = scene.block_positions
    /\ enemy_positions = scene.enemy_positions
    /\ egg_positions = scene.egg_positions
    /\ hatching_times = scene.hatching_times
    /\ level = 1
    /\ lives = INITIAL_LIVES
    /\ total_squished_enemies = 0
    /\ moves = 0
    /\ score = 0
    /\ start_time = 0
    /\ paused_time = 0
    /\ now = t
    /\ current_time = t
    /\ last_hunter_move_time = 0
    /\ last_hatch_check_time = 0
    /\ moved_at = 0
    /\ checked_at = 0
    /\ pc = "enemies"

InitPath ==
    LET cells == RowMajor(InternalPositions(PathSize[1], PathSize[2]))
        num_movable_blocks ==
            ((PathSize[1] - 2) * (PathSize[2] - 2) * BLOCK_COVERAGE_PCT) \div 100
    IN  \E content \in [DOMAIN cells -> PathMarks] :
            /\ Count(content, {MOVABLE_BLOCK_CHARACTERS[1]}) = num_movable_blocks
            /\ Count(content, {CHARACTER_MAP.HUNTER}) <= MaxPathChasers
            /\ \E i \in DOMAIN cells :
                /\ content[i] = FREE
                /\ AtPass(PathSize, cells[i],
                          Scene(PathSize[1], PathSize[2],
                                SelectSeq([j \in DOMAIN cells |->
                                              [k |-> cells[j], v |-> content[j]]],
                                          LAMBDA e : e.v # FREE),
                                <<>>),
                          1)

NextPath == EnemyStep

SpecPath == InitPath /\ [][NextPath]_vars

(***************************************************************************)
(* Properties of the pathfinder                                            *)
(***************************************************************************)
Step(p, d) == <<p[1] + d[1], p[2] + d[2]>>

\* a cell a path may enter: inside the grid, no block or wall, no hunter
Open(p) ==
    /\ InBounds(Board, p[1], p[2])
    /\ p \notin DOMAIN block_positions
    /\ p \notin Keys(enemy_positions)

\* <<W0, ..., Wn>>, Wk the cells that a path of exactly k steps from start
\* ends on
RECURSIVE Walks(_, _)
Walks(start, n) ==
    IF n = 0 THEN <<{start}>>
    ELSE LET prev == Walks(start, n - 1)
         IN  Append(prev, {q \in InternalPositions(height, width) :
                              /\ Open(q)
                              /\ \E d \in Directions :
                                    <<q[1] - d[1], q[2] - d[2]>> \in prev[n]})

\* path is a path from start to goal
IsPath(path, start, goal) ==
    /\ path[1] = start
    /\ path[Len(path)] = goal
    /\ \A k \in 1 .. Len(path) - 1 :
          /\ \E d \in Directions : path[k + 1] = Step(path[k], d)
          /\ Open(path[k + 1])

\* C11: whatever the start, the goal and the blocks and hunters of the board,
\* a non-empty result of bfs_find_path is a path from start to goal over
\* 8-neighbour steps inside the grid that enters no block and no hunter cell,
\* with as few steps as any such path; the result is empty exactly when there
\* is no such path
C11_ShortestPath ==
    \A start \in InternalPositions(height, width) :
        LET ends == Walks(start, (height - 2) * (width - 2))
        IN  \A y \in 0 .. height - 1 : \A x \in 0 .. width - 1 :
                LET goal == <<y, x>>
                    path == bfs_find_path(Board, start, goal)
                IN  IF path = <<>>
                    THEN \A n \in DOMAIN ends : goal \notin ends[n]
                    ELSE /\ IsPath(path, start, goal)
                         /\ goal \in ends[Len(path)]
                         /\ \A n \in 1 .. Len(path) - 1 : goal \notin ends[n]

\* a pass has moved a chaser that still has two steps to go round a block,
\* and another chaser has no way to the hero
W_C11 ==
    /\ pc = "hatch"
    /\ \E i, j \in DOMAIN enemy_positions :
          /\ Len(bfs_find_path(Board, enemy_positions[i].k, hero_pos)) = 3
          /\ bfs_find_path(Board, enemy_positions[j].k, hero_pos) = <<>>


(***************************************************************************)
(* Properties of the distance field                                        *)
(***************************************************************************)
Abs(n) == IF n < 0 THEN 0 - n ELSE n

\* the orthogonal steps between two cells of a grid without obstacles
Hops(p, q) == Abs(p[1] - q[1]) + Abs(p[2] - q[2])

\* the source lists the states of SpecPath give: the hunters in dict order,
\* the hero, both, and the blocks and walls
SourceLists ==
    LET hunters == [i \in DOMAIN enemy_positions |-> enemy_positions[i].k]
    IN  {hunters, <<hero_pos>>, hunters \o <<hero_pos>>,
         RowMajor(DOMAIN block_positions)} \ {<<>>}

\* C12: for every non-empty list of source cells inside the grid,
\* calculate_distances gives 0 to each source and to every other cell of the
\* grid its number of orthogonal steps to the nearest source; no cell keeps -1
C12_DistanceField ==
    \A start_positions \in SourceLists :
        LET distances == calculate_distances(height, width, start_positions)
        IN  \A y \in 0 .. height - 1 : \A x \in 0 .. width - 1 :
                /\ distances[<<y, x>>] # 0 - 1
                /\ <<y, x>> \in Range(start_positions) => distances[<<y, x>>] = 0
                /\ \E s \in Range(start_positions) :
                      /\ distances[<<y, x>>] = Hops(<<y, x>>, s)
                      /\ \A t \in Range(start_positions) :
                            Hops(<<y, x>>, s) <= Hops(<<y, x>>, t)

\* two chasers and the hero are the sources after a pass, and the corner
\* (0, 0) is four steps or more from the nearest of them
W_C12 ==
    /\ pc = "hatch"
    /\ Len(enemy_positions) = 2
    /\ calculate_distances(height, width,
           [i \in DOMAIN enemy_positions |-> enemy_positions[i].k]
           \o <<hero_pos>>)[<<0, 0>>] >= 4

(***************************************************************************)
(* SpecSpawn: the game on a 6 x 5 terminal with the random source "run",   *)
(* the hero left standing for MaxSpawnTime seconds                         *)
(***************************************************************************)
MaxSpawnTime == 1

SpawnSize == <<6, 5>>

InitSpawn == Construct("run", SpawnSize)

NextSpawn ==
    \/ NoInput
    \/ EnemyStep
    \/ HatchStep
    \/ CollisionStep
    \/ \E dt \in {0, 1} : now + dt <= MaxSpawnTime /\ Sleep(dt)

SpecSpawn == InitSpawn /\ [][NextSpawn]_vars

(***************************************************************************)
(* Properties of the hero spawn                                            *)
(***************************************************************************)
\* the cells find_farthest_position may return: no block or wall, no hunter
Free ==
    {p \in {<<y, x>> : y \in 0 .. height - 1, x \in 0 .. width - 1} :
        p \notin DOMAIN block_positions /\ p \notin Keys(enemy_positions)}

\* the occupied_positions of find_farthest_position
Occupied ==
    [i \in DOMAIN enemy_positions |-> enemy_positions[i].k]
    \o RowMajor(DOMAIN block_positions)

\* C13: whenever the board has a free cell, find_farthest_position returns a
\* free cell whose weighted-distance value is the greatest of all free cells,
\* and no free cell with the same value comes before it in the row-major scan
C13_Farthest ==
    LET distances == calculate_weighted_distances(Board, Occupied)
        farthest_position == find_farthest_position(Board)
    IN  Free # {} =>
          /\ farthest_position \in Free
          /\ \A p \in Free :
                /\ distances[p] <= distances[farthest_position]
                /\ distances[p] = distances[farthest_position]
                      => ~PosLess(p, farthest_position)

\* the hero has been respawned after a collision, on a cell that is not the
\* first free cell of the scan
W_C13 ==
    /\ lives < INITIAL_LIVES
    /\ pc = "complete"
    /\ hero_pos = find_farthest_position(Board)
    /\ \E p \in Free : PosLess(p, hero_pos)

\* p is next to a Hunter or Egg
NearHunter(p) == \E d \in Directions : Step(p, d) \in Keys(enemy_positions)

\* the board as __init__ left it: hero_pos is the spawn cell of init_game
Fresh == now = 0 /\ moves = 0 /\ lives = INITIAL_LIVES /\ pc = "input"

\* C14: on a freshly generated board that has a free cell next to no Hunter
\* and no Egg, the hero spawn is next to no Hunter and no Egg
CE_C14 == Fresh /\ (\E p \in Free : ~NearHunter(p)) => ~NearHunter(hero_pos)

(***************************************************************************)
(* SpecFar: the hero left standing on a 3 x 14 terminal, through one pause *)
(* and MaxFarTime seconds of play, on boards the constructor generates     *)
(***************************************************************************)
MaxFarTime == 1

FarSize == <<3, 14>>

\* the draws of place_blocks and place_enemies: three movable blocks, three
\* eggs, two chasers
FarDraws ==
    {<< [k |-> <<1, 5>>, v |-> s], [k |-> <<1, 6>>, v |-> s], [k |-> <<1, 7>>, v |-> s],
        [k |-> e1, v |-> CHARACTER_MAP.EGG], [k |-> e2, v |-> CHARACTER_MAP.EGG],
        [k |-> <<1, 12>>, v |-> CHARACTER_MAP.EGG],
        [k |-> c[1], v |-> CHARACTER_MAP.HUNTER],
        [k |-> c[2], v |-> CHARACTER_MAP.HUNTER] >> :
     s \in Range(MOVABLE_BLOCK_CHARACTERS),
     <<e1, e2>> \in {<<a, b>> \in {<<1, 2>>, <<1, 8>>, <<1, 9>>}
                                  \X {<<1, 2>>, <<1, 8>>, <<1, 9>>} : PosLess(a, b)},
     c \in {<< <<1, 3>>, <<1, 4>> >>, << <<1, 10>>, <<1, 11>> >>}}

\* __init__ when the random source gives the draws of FarDraws
InitFar ==
    \E occ \in FarDraws :
        LET scene == Scene(FarSize[1], FarSize[2], occ, <<>>)
        IN  InPlay(FarSize,
                   find_farthest_position(
                       [height |-> FarSize[1], width |-> FarSize[2],
                        block_positions |-> scene.block_positions,
                        enemy_positions |-> scene.enemy_positions]),
                   scene)

NextFar ==
    \/ NoInput
    \/ paused_time < MaxPauses * HATCHING_TIME /\ InputPause(HATCHING_TIME)
    \/ EnemyStep
    \/ HatchStep
    \/ CollisionStep
    \/ \E dt \in {0, 1} : (now + dt) - paused_time <= MaxFarTime /\ Sleep(dt)

SpecFar == InitFar /\ [][NextFar]_vars

(***************************************************************************)
(* Properties of the enemy-move pass                                       *)
(***************************************************************************)
\* the next step of main_loop is an enemy-move pass
Pass ==
    /\ pc = "enemies"
    /\ (current_time - last_hunter_move_time) * 1000 >= HUNTER_MOVE_DELAY

\* entry i of the snapshot list(self.enemy_positions.items())
Pos(i) == enemy_positions[i].k
Kind(i) == enemy_positions[i].v

\* the hunter dict d has a hunter of kind c on cell p
HasKind(d, p, c) == p \in Keys(d) /\ Get(d, p) = c

\* the path of hunter i to the hero
Path(i) == bfs_find_path(Board, Pos(i), hero_pos)

\* hunter i is a Crusher within the activation radius
Active(i) ==
    Kind(i) = CHARACTER_MAP.CRUSHER /\ is_within_CRUSHER_radius(Pos(i), hero_pos)

\* the cells hunter i may write to new_positions for a step it tries
Aims(i) ==
    IF Kind(i) = CHARACTER_MAP.EGG THEN {}
    ELSE IF Kind(i) = CHARACTER_MAP.CRUSHER
    THEN IF ~Active(i) THEN {}
         ELSE IF Len(Path(i)) > 1
              THEN {move_entity(Board, Pos(i), Path(i)[2][1] - Pos(i)[1],
                                Path(i)[2][2] - Pos(i)[2]).pos}
              ELSE {Step(Pos(i), d) : d \in FreeSteps(Board, Pos(i))}
    ELSE IF Len(Path(i)) > 1 THEN {Path(i)[2]} ELSE {}

\* C15: an enemy-move pass leaves every Egg of the hunter set in the hunter
\* set, as an Egg, on the cell it had before the pass
C15_EggsStay ==
    [][Pass => \A i \in DOMAIN enemy_positions :
                  Kind(i) = CHARACTER_MAP.EGG
                      => HasKind(enemy_positions', Pos(i), CHARACTER_MAP.EGG)]_vars

\* a pass has just run, after the first eggs have hatched, on a board with
\* an Egg, a Crusher and a Chaser
W_C15 ==
    /\ pc = "hatch"
    /\ last_hunter_move_time = current_time
    /\ current_time > HATCHING_TIME
    /\ \E i, j, k \in DOMAIN enemy_positions :
          /\ Kind(i) = CHARACTER_MAP.EGG
          /\ Kind(j) = CHARACTER_MAP.CRUSHER
          /\ Kind(k) = CHARACTER_MAP.HUNTER

\* C16: an enemy-move pass leaves every Crusher that is farther from the hero
\* than CRUSHER_RADIUS in the hunter set, as a Crusher, on the same cell
CE_C16 ==
    [][Pass => \A i \in DOMAIN enemy_positions :
                  Kind(i) = CHARACTER_MAP.CRUSHER /\ ~Active(i)
                      => HasKind(enemy_positions', Pos(i), CHARACTER_MAP.CRUSHER)]_vars

\* C17: after an enemy-move pass a Crusher within the radius that has no path
\* to the hero is a Crusher on a free cell next to its own if there is one,
\* and a Crusher on its own cell if there is none
CE_C17 ==
    [][Pass => \A i \in DOMAIN enemy_positions :
                  Active(i) /\ Path(i) = <<>> =>
                     IF FreeSteps(Board, Pos(i)) = {}
                     THEN HasKind(enemy_positions', Pos(i), CHARACTER_MAP.CRUSHER)
                     ELSE \E d \in FreeSteps(Board, Pos(i)) :
                             HasKind(enemy_positions', Step(Pos(i), d),
                                     CHARACTER_MAP.CRUSHER)]_vars

\* C18: after an enemy-move pass a Chaser with a path to the hero is on the
\* first step of the path, if no other hunter could claim that cell in the
\* pass, or else on the first step or on its own cell; a Chaser with no path
\* is on its own cell; and the hunter set has as many Chasers as before
CE_C18 ==
    [][Pass =>
         /\ \A i \in DOMAIN enemy_positions :
               Kind(i) = CHARACTER_MAP.HUNTER =>
                  IF Len(Path(i)) > 1
                  THEN IF \A j \in DOMAIN enemy_positions \ {i} : Path(i)[2] \notin Aims(j)
                       THEN /\ HasKind(enemy_positions', Path(i)[2], CHARACTER_MAP.HUNTER)
                            /\ Pos(i) \notin Keys(enemy_positions')
                       ELSE \/ HasKind(enemy_positions', Path(i)[2], CHARACTER_MAP.HUNTER)
                            \/ HasKind(enemy_positions', Pos(i), CHARACTER_MAP.HUNTER)
                  ELSE HasKind(enemy_positions', Pos(i), CHARACTER_MAP.HUNTER)
         /\ Cardinality({i \in DOMAIN enemy_positions : Kind(i) = CHARACTER_MAP.HUNTER})
               = Cardinality({p \in Keys(enemy_positions') :
                                 Get(enemy_positions', p) = CHARACTER_MAP.HUNTER})]_vars

\* C19: when two hunters try the same cell in one enemy-move pass and no
\* hunter before them could try it, then after the pass the one processed
\* first is on that cell and the later one is on its own cell
CE_C19 ==
    [][Pass => \A i, j \in DOMAIN enemy_positions :
                  /\ i < j
                  /\ Aims(i) = Aims(j)
                  /\ Cardinality(Aims(i)) = 1
                  /\ \A k \in 1 .. i - 1 : Aims(k) \cap Aims(i) = {}
                  => /\ \A c \in Aims(i) : HasKind(enemy_positions', c, Kind(i))
                     /\ HasKind(enemy_positions', Pos(j), Kind(j))]_vars

\* an active Crusher stands before a chain of movable blocks on the straight
\* line from the Crusher to the hero, with a free cell between the chain and
\* the hero, so that move_entity would push the chain for the Crusher
BeforeBlock ==
    \E i \in DOMAIN enemy_positions : \E d \in Directions :
        LET n == ChainLen(Pos(i), d)
            end == RayCell(Pos(i), d, n + 1)
        IN  /\ Active(i)
            /\ n >= 1
            /\ Open(end)
            /\ end \notin DOMAIN egg_positions
            /\ \E m \in n + 2 .. height + width : hero_pos = RayCell(Pos(i), d, m)
            /\ move_entity(Board, Pos(i), d[1], d[2]).pos = RayCell(Pos(i), d, 1)

\* C20: a Crusher can push blocks: an enemy-move pass that starts with an
\* active Crusher before a block it can push toward the hero changes a block
\* position
CE_C20 == [][Pass /\ BeforeBlock => block_positions' # block_positions]_vars

(***************************************************************************)
(* SpecHatch: on the boards of FarDraws the hero is idle and the player    *)
(* pauses for about HATCHING_TIME seconds at a time, until the clock reads *)
(* MaxHatchClock; the clock stands still between two iterations            *)
(***************************************************************************)
MaxHatchClock == 61

HatchPauses == {HATCHING_TIME - 1, HATCHING_TIME, HATCHING_TIME + 1}

NextHatch ==
    \/ NoInput
    \/ \E dt \in HatchPauses : now + dt <= MaxHatchClock /\ InputPause(dt)
    \/ EnemyStep
    \/ HatchStep
    \/ CollisionStep
    \/ Sleep(0)

SpecHatch == InitFar /\ [][NextHatch]_vars

(***************************************************************************)
(* Properties of the hatch check                                           *)
(***************************************************************************)
\* the next step of main_loop is a hatch check
HatchCheck ==
    /\ pc = "hatch"
    /\ current_time - last_hatch_check_time >= 1

\* C21: an Egg never turns into a Crusher at a hatch check whose clock time
\* is earlier than the Egg's creation time plus HATCHING_TIME (the eggs of
\* SpecHatch are created at start_time)
C21_NoEarlyHatch ==
    [][pc = "hatch" =>
        \A i \in DOMAIN enemy_positions :
            Kind(i) = CHARACTER_MAP.EGG
            /\ HasKind(enemy_positions', Pos(i), CHARACTER_MAP.CRUSHER)
            => /\ HasKind(hatching_times, Pos(i), start_time + HATCHING_TIME)
               /\ now >= start_time + HATCHING_TIME]_vars

\* a hatch check has run one second before the eggs are ready, and all of
\* them are still eggs
W_C21 ==
    /\ pc = "collide"
    /\ now = start_time + HATCHING_TIME - 1
    /\ last_hatch_check_time = now
    /\ Len(hatching_times) = NUM_EGGS
    /\ \A e \in Range(hatching_times) :
            HasKind(enemy_positions, e.k, CHARACTER_MAP.EGG)

\* C22: at a hatch check that runs at or after the creation time plus
\* 2 * HATCHING_TIME every Egg still in the hunter set becomes a Crusher on
\* its own cell, whatever jitters are drawn
C22_HatchedByTwice ==
    [][HatchCheck /\ now >= start_time + 2 * HATCHING_TIME =>
        \A i \in DOMAIN enemy_positions :
            Kind(i) = CHARACTER_MAP.EGG
            => /\ HasKind(enemy_positions', Pos(i), CHARACTER_MAP.CRUSHER)
               /\ Pos(i) \notin DOMAIN egg_positions']_vars

\* the egg of cell (1, 12), out of every hunter's reach and of the
\* crushers' radius, is a Crusher after the check of an iteration that
\* began at 2 * HATCHING_TIME or later: the enemy-move pass of that iteration
\* would have removed a Crusher hatched before
W_C22 ==
    /\ pc = "collide"
    /\ current_time >= start_time + 2 * HATCHING_TIME
    /\ last_hatch_check_time = current_time
    /\ hero_pos = <<1, 1>>
    /\ HasKind(enemy_positions, <<1, 12>>, CHARACTER_MAP.CRUSHER)

(***************************************************************************)
(* SpecTrail: MaxTrailMoves moves of the hero, MaxTrailTime seconds of     *)
(* play and one pause of HATCHING_TIME seconds, on 3x14 boards the         *)
(* constructor generates: the hero finds a block, an egg and a block on    *)
(* its right and a chaser on its left                                      *)
(***************************************************************************)
MaxTrailMoves == 3
MaxTrailTime == 3

TrailSize == <<3, 14>>

\* the draws of place_blocks and place_enemies: three movable blocks, three
\* eggs, two chasers
TrailDraws ==
    {<< [k |-> <<1, 3>>, v |-> s], [k |-> <<1, 5>>, v |-> s], [k |-> <<1, 12>>, v |-> s],
        [k |-> <<1, 4>>, v |-> CHARACTER_MAP.EGG],
        [k |-> <<1, 10>>, v |-> CHARACTER_MAP.EGG],
        [k |-> <<1, 11>>, v |-> CHARACTER_MAP.EGG],
        [k |-> <<1, 1>>, v |-> CHARACTER_MAP.HUNTER],
        [k |-> c, v |-> CHARACTER_MAP.HUNTER] >> :
     s \in Range(MOVABLE_BLOCK_CHARACTERS), c \in {<<1, 8>>, <<1, 9>>}}

\* __init__ when the random source gives the draws of TrailDraws
InitTrail ==
    \E occ \in TrailDraws :
        LET scene == Scene(TrailSize[1], TrailSize[2], occ, <<>>)
        IN  InPlay(TrailSize,
                   find_farthest_position(
                       [height |-> TrailSize[1], width |-> TrailSize[2],
                        block_positions |-> scene.block_positions,
                        enemy_positions |-> scene.enemy_positions]),
                   scene)

NextTrail ==
    \/ NoInput
    \/ \E d \in Directions : moves < MaxTrailMoves /\ InputMove(d[1], d[2])
    \/ paused_time < MaxPauses * HATCHING_TIME /\ InputPause(HATCHING_TIME)
    \/ EnemyStep
    \/ HatchStep
    \/ CollisionStep
    \/ \E dt \in {0, 1} : (now + dt) - paused_time <= MaxTrailTime /\ Sleep(dt)

SpecTrail == InitTrail /\ [][NextTrail]_vars

\* the cells that leave the egg set in the step
Hatched == (DOMAIN egg_positions) \ (DOMAIN egg_positions')

\* C23: at the hatch step every egg hatched has left the egg set and the
\* hatch-time table and is a Crusher of the hunter set on its own cell, and
\* nothing else changes: blocks and hero stay, every Chaser, every Crusher
\* and every egg not hatched keeps its entry, and the hunter set gains the
\* hatched cells only
CE_C23 ==
    [][pc = "hatch" =>
        /\ \A p \in Hatched :
                /\ p \notin Keys(hatching_times')
                /\ HasKind(enemy_positions', p, CHARACTER_MAP.CRUSHER)
        /\ block_positions' = block_positions
        /\ hero_pos' = hero_pos
        /\ \A i \in DOMAIN enemy_positions :
                Kind(i) # CHARACTER_MAP.EGG \/ Pos(i) \notin Hatched
                => HasKind(enemy_positions', Pos(i), Kind(i))
        /\ Keys(enemy_positions') = Keys(enemy_positions) \cup Hatched
        /\ \A e \in Range(hatching_times) :
                e.k \notin Hatched => e \in Range(hatching_times')
        /\ Range(hatching_times') \subseteq Range(hatching_times)]_vars

(***************************************************************************)
(* SpecLevel: a first level played to its end on 3x12 boards the           *)
(* constructor generates.  Two pushes to the right squish the two chasers, *)
(* a third shuts the eggs in between a block and the wall, and after a     *)
(* pause of HATCHING_TIME seconds the Crushers hatched there, having no    *)
(* step to take, leave the hunter set (C17)                                *)
(***************************************************************************)
MaxLevelMoves == 3
MaxLevelTime == 1

LevelSize == <<3, 12>>

\* the draws of place_blocks and place_enemies: three movable blocks, three
\* eggs, two chasers
LevelDraws ==
    {<< [k |-> <<1, 2>>, v |-> s], [k |-> <<1, 4>>, v |-> s], [k |-> <<1, 6>>, v |-> s],
        [k |-> <<1, 8>>, v |-> CHARACTER_MAP.EGG],
        [k |-> <<1, 9>>, v |-> CHARACTER_MAP.EGG],
        [k |-> <<1, 10>>, v |-> CHARACTER_MAP.EGG],
        [k |-> <<1, 3>>, v |-> CHARACTER_MAP.HUNTER],
        [k |-> <<1, 5>>, v |-> CHARACTER_MAP.HUNTER] >> :
     s \in Range(MOVABLE_BLOCK_CHARACTERS)}

\* __init__ when the random source gives the draws of LevelDraws
InitLevel ==
    \E occ \in LevelDraws :
        LET scene == Scene(LevelSize[1], LevelSize[2], occ, <<>>)
        IN  InPlay(LevelSize,
                   find_farthest_position(
                       [height |-> LevelSize[1], width |-> LevelSize[2],
                        block_positions |-> scene.block_positions,
                        enemy_positions |-> scene.enemy_positions]),
                   scene)

NextLevel ==
    \/ NoInput
    \/ \E d \in Directions : moves < MaxLevelMoves /\ InputMove(d[1], d[2])
    \/ paused_time < MaxPauses * HATCHING_TIME /\ InputPause(HATCHING_TIME)
    \/ EnemyStep
    \/ HatchStep
    \/ CollisionStep
    \/ \E dt \in {0, 1} : (now + dt) - paused_time <= MaxLevelTime /\ Sleep(dt)
    \/ level < MaxLevel /\ LevelComplete("run")
    \/ LevelQuit

SpecLevel == InitLevel /\ [][NextLevel]_vars

(***************************************************************************)
(* Properties of the level check                                           *)
(***************************************************************************)
\* the eggs of the hunter set
Eggs ==
    {enemy_positions[i].k :
        i \in {j \in DOMAIN enemy_positions :
                  enemy_positions[j].v = CHARACTER_MAP.EGG}}

\* C24: the level check completes the level exactly when the hunter set,
\* unhatched eggs included, is empty: with no hunter left the step after
\* the collision check starts the next level or leaves the game, with a
\* Chaser, a Crusher or an Egg left it starts the next iteration at the same
\* level, and the level changes at no other step
C24_CompleteWhenEmpty ==
    [][/\ pc = "complete" /\ enemy_positions = <<>>
            => level' = level + 1 \/ pc' = "exit"
       /\ pc = "complete" /\ enemy_positions # <<>>
            => level' = level /\ pc' = "input"
       /\ level' # level => pc = "complete" /\ enemy_positions = <<>>]_vars

\* the second level has begun after the two chasers were squished and the
\* three eggs hatched and left
W_C24 ==
    /\ level = 2
    /\ total_squished_enemies = 2
    /\ now > HATCHING_TIME

\* C25: on a level transition the level grows by exactly 1, and when the
\* free interior cells suffice the new level begins with NUM_EGGS eggs and
\* level + INITIAL_NUM_ENEMIES chasers, level being the new level
C25_NextLevel ==
    [][level' # level =>
        /\ level' = level + 1
        /\ ~Insufficient'
            => /\ Cardinality(Eggs') = NUM_EGGS
               /\ Cardinality(DOMAIN egg_positions') = NUM_EGGS
               /\ Cardinality(Chasers') = level' + INITIAL_NUM_ENEMIES
               /\ Len(enemy_positions') = NUM_EGGS + level' + INITIAL_NUM_ENEMIES]_vars

\* a second level with three eggs and three chasers
W_C25 ==
    /\ level = 2
    /\ ~Insufficient
    /\ Cardinality(Eggs) = NUM_EGGS
    /\ Cardinality(Chasers) = 2 + INITIAL_NUM_ENEMIES
    /\ pc = "input"

(***************************************************************************)
(* Properties of the collision check                                       *)
(***************************************************************************)
\* C26: when the collision check finds the hero on a hunter's cell lives
\* goes down by exactly 1; at 0 the game is over, and otherwise the hero is
\* put on the cell find_farthest_position chooses, an interior cell free of
\* blocks, walls, hunters and eggs, and the play goes on; without a
\* collision lives and hero stay; lives is never negative
C26_Collision ==
    [][/\ lives >= 0 /\ lives' >= 0
       /\ pc = "collide" =>
            IF hero_pos \in Keys(enemy_positions)
            THEN /\ lives' = lives - 1
                 /\ IF lives' = 0
                    THEN pc' = "gameover"
                    ELSE /\ pc' = "complete"
                         /\ hero_pos' = find_farthest_position(Board)
                         /\ hero_pos' \in Free \cap InternalPositions(height, width)
            ELSE /\ lives' = lives /\ hero_pos' = hero_pos
                 /\ pc' = "complete"
       /\ pc # "collide" /\ pc # "gameover" => lives' = lives]_vars

\* the game is over after a first collision with a respawn and a second one
W_C26 ==
    /\ pc = "gameover"
    /\ lives = 0
    /\ hero_pos \in Keys(enemy_positions)

(***************************************************************************)
(* The times the session reports                                           *)
(***************************************************************************)
\* render's elapsed_time; self.paused is set nowhere, so the branch taken is
\* that of "not self.paused" (whole seconds, int() changes nothing)
elapsed_time == paused_time + (now - start_time)

\* the duration that main_loop and end_game pass to the completion messages
duration == now - start_time

\* C27: the elapsed play time the session reports is the clock time since
\* the start of the game minus the sum of the paused durations
CE_C27 ==
    /\ elapsed_time = (now - start_time) - paused_time
    /\ duration = (now - start_time) - paused_time

(***************************************************************************)
(* Properties of an iteration of main_loop                                 *)
(***************************************************************************)
\* C28: an iteration takes its steps in the order input and hero move,
\* enemy-move pass, hatch check, collision check, level check; the
\* enemy-move pass runs only when at least HUNTER_MOVE_DELAY has gone by on
\* the clock since the pass before, the hatch check only when at least one
\* second has gone by since the check before; and a hunter that the pass
\* puts on the hero's cell costs a life at the collision check of the same
\* iteration
CE_C28 ==
    [][/\ pc = "input" => pc' \in {"enemies", "exit"}
       /\ pc = "enemies" => pc' = "hatch" /\ hero_pos' = hero_pos
       /\ pc = "hatch" => pc' = "collide" /\ hero_pos' = hero_pos
       /\ pc = "collide" => pc' \in {"complete", "gameover", "crashed"}
       /\ pc = "collide" /\ hero_pos \in Keys(enemy_positions) => lives' = lives - 1
       /\ pc = "complete" => pc' \in {"input", "exit", "crashed"}
       /\ Pass => (now - moved_at) * 1000 >= HUNTER_MOVE_DELAY
       /\ HatchCheck => now - checked_at >= 1]_vars

(***************************************************************************)
(* handle_input with a joystick attached.  An axis is given in tenths,     *)
(* -10 .. 10 for get_axis' -1.0 .. 1.0                                     *)
(***************************************************************************)
ARROWS == {"KEY_UP", "KEY_DOWN", "KEY_LEFT", "KEY_RIGHT"}

dead_zone == 2

\* (move_y, move_x) after the key chain and the joystick block, for the
\* arrow keys read and the stick at (axis_y, axis_x)
move_vector(keys, axis_y, axis_x) ==
    LET key_y == IF "KEY_UP" \in keys /\ "KEY_LEFT" \in keys THEN 0 - 1
                 ELSE IF "KEY_UP" \in keys /\ "KEY_RIGHT" \in keys THEN 0 - 1
                 ELSE IF "KEY_DOWN" \in keys /\ "KEY_LEFT" \in keys THEN 1
                 ELSE IF "KEY_DOWN" \in keys /\ "KEY_RIGHT" \in keys THEN 1
                 ELSE IF "KEY_UP" \in keys THEN 0 - 1
                 ELSE IF "KEY_DOWN" \in keys THEN 1
                 ELSE 0
        key_x == IF "KEY_UP" \in keys /\ "KEY_LEFT" \in keys THEN 0 - 1
                 ELSE IF "KEY_UP" \in keys /\ "KEY_RIGHT" \in keys THEN 1
                 ELSE IF "KEY_DOWN" \in keys /\ "KEY_LEFT" \in keys THEN 0 - 1
                 ELSE IF "KEY_DOWN" \in keys /\ "KEY_RIGHT" \in keys THEN 1
                 ELSE IF "KEY_UP" \in keys THEN 0
                 ELSE IF "KEY_DOWN" \in keys THEN 0
                 ELSE IF "KEY_LEFT" \in keys THEN 0 - 1
                 ELSE IF "KEY_RIGHT" \in keys THEN 1
                 ELSE 0
        tilted == Abs(axis_y) > dead_zone \/ Abs(axis_x) > dead_zone
        stick(axis) == IF ~tilted THEN 0
                       ELSE IF axis < 0 - 5 THEN 0 - 1
                       ELSE IF axis > 5 THEN 1
                       ELSE 0
    IN  <<key_y + stick(axis_y), key_x + stick(axis_x)>>

\* handle_input: arrow keys and a stick position, no other key and no
\* button; move_hero when the vector is not (0, 0)
InputStick(keys, axis_y, axis_x) ==
    LET v == move_vector(keys, axis_y, axis_x)
    IN  /\ pc = "input"
        /\ IF v # <<0, 0>>
           THEN MoveHero(v[1], v[2])
           ELSE UNCHANGED <<hero_pos, boardVars, sessionVars>>
        /\ pc' = "enemies"
        /\ UNCHANGED <<tick_count, height, width, clockVars>>

(***************************************************************************)
(* SpecStick: the games of Spec at clock time 0, played with keyboard and  *)
(* joystick for MaxStickMoves moves                                        *)
(***************************************************************************)
MaxStickMoves == 1

\* stick positions: full tilt, the threshold itself, rest, a tilt between
\* dead zone and threshold
AxisValues == {0 - 10, 0 - 5, 0, 3, 10}

NextStick ==
    \/ \E keys \in SUBSET ARROWS, axis_y \in AxisValues, axis_x \in AxisValues :
            /\ moves < MaxStickMoves \/ move_vector(keys, axis_y, axis_x) = <<0, 0>>
            /\ InputStick(keys, axis_y, axis_x)
    \/ EnemyStep
    \/ HatchStep
    \/ CollisionStep
    \/ Sleep(0)

SpecStick == Init /\ [][NextStick]_vars

\* C29: whatever keys and stick positions handle_input reads, the vector it
\* applies to the hero has both components in {-1, 0, 1}: the hero's row
\* and column change by at most 1 in a step
CE_C29 ==
    [][pc = "input" /\ hero_pos' # hero_pos =>
        /\ Abs(hero_pos'[1] - hero_pos[1]) <= 1
        /\ Abs(hero_pos'[2] - hero_pos[2]) <= 1]_vars

(***************************************************************************)
(* Properties of a new game                                                *)
(***************************************************************************)
\* C30: the new game that follows a game over begins at level 1 with score,
\* squish count and move count 0 and with the lives the first game began
\* with
CE_C30 ==
    [][pc = "gameover" /\ pc' # "exit" =>
        /\ level' = 1
        /\ score' = 0
        /\ total_squished_enemies' = 0
        /\ moves' = 0
        /\ lives' = INITIAL_LIVES]_vars

(***************************************************************************)
(* Properties of a push that reaches a hunter                              *)
(***************************************************************************)
\* C31, as the code has it: a push whose chain reaches a Hunter or Egg is
\* valid only if the cell one step beyond the Hunter/Egg is in
\* block_positions, a movable block or a Wall; when that cell is empty or
\* holds a hunter the move is Blocked: no hunter is removed, no block moves
\* and the hero stays in place
A_C31 ==
    [][\A d \in Directions :
          LET k == ChainLen(hero_pos, d)
          IN  /\ MoveHero(d[1], d[2])
              /\ k >= 1
              /\ RayCell(hero_pos, d, k + 1) \in Keys(enemy_positions)
              /\ RayCell(hero_pos, d, k + 2) \notin DOMAIN block_positions
              => UNCHANGED <<hero_pos, block_positions, enemy_positions,
                             egg_positions, total_squished_enemies>>]_vars

\* the hero at (5,5) has tried to push the block of (5,6) onto the chaser of
\* (5,7), which has the free cell (5,8) behind it
W_C31 ==
    /\ moves = 1
    /\ hero_pos = <<5, 5>>
    /\ Movable(<<5, 6>>)
    /\ HasKind(enemy_positions, <<5, 7>>, CHARACTER_MAP.HUNTER)
    /\ <<5, 8>> \notin DOMAIN block_positions
    /\ <<5, 8>> \notin Keys(enemy_positions)
    /\ total_squished_enemies = 0

\* C31: a push whose chain reaches a Hunter or Egg is Blocked whenever the
\* cell beyond the Hunter/Egg is no movable block (empty, a Wall or outside
\* the grid): no hunter is removed, no block moves and the hero stays
CE_C31 ==
    [][\A d \in Directions :
          LET k == ChainLen(hero_pos, d)
          IN  /\ MoveHero(d[1], d[2])
              /\ k >= 1
              /\ RayCell(hero_pos, d, k + 1) \in Keys(enemy_positions)
              /\ ~Movable(RayCell(hero_pos, d, k + 2))
              => UNCHANGED <<hero_pos, block_positions, enemy_positions,
                             egg_positions, total_squished_enemies>>]_vars

(***************************************************************************)
(* SpecWall: MaxStaleMoves moves of the hero at clock time 0 on 6x6 boards *)
(* the constructor generates, with a chaser or an egg before the lower     *)
(* border wall                                                             *)
(***************************************************************************)
WallSize == <<6, 6>>

\* the draws of place_blocks and place_enemies: four movable blocks, three
\* eggs, two chasers
WallDraws ==
    {<< [k |-> <<2, 2>>, v |-> s1], [k |-> <<2, 3>>, v |-> s2],
        [k |-> <<4, 4>>, v |-> s1], [k |-> <<3, 4>>, v |-> s2],
        [k |-> <<3, 3>>, v |-> CHARACTER_MAP.EGG],
        [k |-> <<3, 1>>, v |-> CHARACTER_MAP.EGG],
        [k |-> c[1], v |-> CHARACTER_MAP.EGG],
        [k |-> c[2], v |-> CHARACTER_MAP.HUNTER],
        [k |-> <<4, 2>>, v |-> CHARACTER_MAP.HUNTER] >> :
     s1 \in Range(MOVABLE_BLOCK_CHARACTERS), s2 \in Range(MOVABLE_BLOCK_CHARACTERS),
     c \in {<< <<4, 1>>, <<4, 3>> >>, << <<4, 3>>, <<4, 1>> >>}}

\* __init__ when the random source gives the draws of WallDraws
InitWall ==
    \E occ \in WallDraws :
        LET scene == Scene(WallSize[1], WallSize[2], occ, <<>>)
        IN  InPlay(WallSize,
                   find_farthest_position(
                       [height |-> WallSize[1], width |-> WallSize[2],
                        block_positions |-> scene.block_positions,
                        enemy_positions |-> scene.enemy_positions]),
                   scene)

SpecWall == InitWall /\ [][NextStale]_vars

\* C32: a hunter that stands between the end of the chain the hero pushes
\* and a Wall is squished: it leaves the hunter set and the last block of
\* the chain ends in its cell
CE_C32 ==
    [][\A d \in Directions :
          LET k == ChainLen(hero_pos, d)
              h == RayCell(hero_pos, d, k + 1)
              w == RayCell(hero_pos, d, k + 2)
          IN  /\ MoveHero(d[1], d[2])
              /\ k >= 1
              /\ h \in Keys(enemy_positions)
              /\ w \in DOMAIN block_positions
              /\ block_positions[w] = CHARACTER_MAP.WALL
              => /\ h \notin Keys(enemy_positions')
                 /\ h \in DOMAIN block_positions'
                 /\ block_positions'[h] = block_positions[RayCell(hero_pos, d, k)]]_vars

(***************************************************************************)
(* SpecField: play on a 7 x 7 terminal whose constructor drew five Hunters *)
(* and Eggs around the upper left corner of the field                      *)
(***************************************************************************)
FieldSize == <<7, 7>>

\* the draws of place_blocks and place_enemies: seven movable blocks, three
\* eggs, two chasers
FieldDraws ==
    {<< [k |-> <<5, 1>>, v |-> s], [k |-> <<5, 2>>, v |-> s],
        [k |-> <<5, 3>>, v |-> s], [k |-> <<5, 4>>, v |-> s],
        [k |-> <<5, 5>>, v |-> s], [k |-> <<4, 5>>, v |-> s],
        [k |-> <<3, 5>>, v |-> s],
        [k |-> <<1, 2>>, v |-> CHARACTER_MAP.EGG],
        [k |-> e[1], v |-> CHARACTER_MAP.EGG],
        [k |-> e[2], v |-> CHARACTER_MAP.EGG],
        [k |-> c[1], v |-> CHARACTER_MAP.HUNTER],
        [k |-> c[2], v |-> CHARACTER_MAP.HUNTER] >> :
     s \in Range(MOVABLE_BLOCK_CHARACTERS),
     <<e, c>> \in {<< << <<1, 1>>, <<2, 1>> >>, << <<1, 3>>, <<3, 1>> >> >>,
                   << << <<1, 3>>, <<3, 1>> >>, << <<1, 1>>, <<2, 1>> >> >>}}

\* __init__ when the random source gives the draws of FieldDraws
InitField ==
    \E occ \in FieldDraws :
        LET scene == Scene(FieldSize[1], FieldSize[2], occ, <<>>)
        IN  InPlay(FieldSize,
                   find_farthest_position(
                       [height |-> FieldSize[1], width |-> FieldSize[2],
                        block_positions |-> scene.block_positions,
                        enemy_positions |-> scene.enemy_positions]),
                   scene)

SpecField == InitField /\ [][NextStale]_vars

(***************************************************************************)
(* Properties of the weighted distance field                               *)
(***************************************************************************)
\* C33: on the board in play, calculate_weighted_distances gives 0 to every
\* source and, to every other cell of the grid, the least over the sources
\* of the source's weight (100 for a Hunter or Egg, 1 for a block or wall)
\* times the number of 8-neighbour steps from the source to the cell
CE_C33 ==
    LET occupied_positions ==
            [i \in DOMAIN enemy_positions |-> enemy_positions[i].k]
            \o RowMajor(DOMAIN block_positions)
        sources == Range(occupied_positions)
        distances == calculate_weighted_distances(Board, occupied_positions)
        weight(s) == IF s \in Keys(enemy_positions) THEN ENEMY_WEIGHT
                     ELSE BLOCK_WEIGHT
        steps(s, c) == IF Abs(s[1] - c[1]) > Abs(s[2] - c[2])
                       THEN Abs(s[1] - c[1]) ELSE Abs(s[2] - c[2])
        cost(s, c) == weight(s) * steps(s, c)
    IN  \A c \in (0 .. height - 1) \X (0 .. width - 1) :
            /\ c \in DOMAIN distances
            /\ c \in sources => distances[c] = 0
            /\ c \notin sources =>
                  /\ \E s \in sources : distances[c] = cost(s, c)
                  /\ \A s \in sources : distances[c] <= cost(s, c)

(***************************************************************************)
(* Properties of the hunter set as a whole                                 *)
(***************************************************************************)
\* C34: an enemy-move pass and a hatch pass each leave the number of entries
\* of the hunter set (Chasers, Crushers and Eggs together) unchanged
CE_C34 ==
    [][(pc = "enemies" \/ pc = "hatch") =>
          Len(enemy_positions') = Len(enemy_positions)]_vars

\* C35: in every state a position is in egg_positions if and only if it has
\* an entry in hatching_times, and if and only if the hunter set holds an Egg
\* there
CE_C35 ==
    \A p \in (0 .. height - 1) \X (0 .. width - 1) :
        /\ p \in DOMAIN egg_positions <=> p \in Keys(hatching_times)
        /\ p \in DOMAIN egg_positions
              <=> HasKind(enemy_positions, p, CHARACTER_MAP.EGG)

(***************************************************************************)
(* Frame of a push                                                         *)
(***************************************************************************)
\* C36: a hero push that succeeds on a chain of k >= 1 blocks leaves the set
\* of wall cells and the number of movable blocks as they were, carries each
\* block's skin to the next cell of the line, and changes the entry in
\* block_positions, in the hunter set and in egg_positions of no cell off
\* the chain and its destination (which is the squished hunter's cell)
C36_PushFrame ==
    [][\A d \in Directions :
          LET k == ChainLen(hero_pos, d)
              touched == {RayCell(hero_pos, d, i) : i \in 1 .. k + 1}
              walls(b) == {p \in DOMAIN b : b[p] = CHARACTER_MAP.WALL}
              entry(e, p) == IF p \in Keys(e) THEN Get(e, p) ELSE FREE
          IN  /\ MoveHero(d[1], d[2])
              /\ k >= 1
              /\ hero_pos' # hero_pos
              => /\ walls(block_positions') = walls(block_positions)
                 /\ Cardinality(DOMAIN block_positions' \ walls(block_positions'))
                       = Cardinality(DOMAIN block_positions \ walls(block_positions))
                 /\ \A i \in 1 .. k :
                       /\ RayCell(hero_pos, d, i + 1) \in DOMAIN block_positions'
                       /\ block_positions'[RayCell(hero_pos, d, i + 1)]
                             = block_positions[RayCell(hero_pos, d, i)]
                 /\ \A p \in ((0 .. height - 1) \X (0 .. width - 1)) \ touched :
                       /\ p \in DOMAIN block_positions' <=> p \in DOMAIN block_positions
                       /\ p \in DOMAIN block_positions
                             => block_positions'[p] = block_positions[p]
                       /\ entry(enemy_positions', p) = entry(enemy_positions, p)
                       /\ p \in DOMAIN egg_positions' <=> p \in DOMAIN egg_positions]_vars

\* the hero has pushed the blocks of (5,6) and (5,7), of different skins,
\* from (5,5) and squished the hunter of (5,8) against the block of (5,9)
W_C36 ==
    /\ moves = 1
    /\ hero_pos = <<5, 6>>
    /\ total_squished_enemies = 1
    /\ Movable(<<5, 7>>) /\ Movable(<<5, 8>>) /\ Movable(<<5, 9>>)
    /\ block_positions[<<5, 7>>] # block_positions[<<5, 8>>]
    /\ <<5, 8>> \notin Keys(enemy_positions)

(***************************************************************************)
(* SpecChase: play on a 5 x 8 terminal in which the hero makes at most one *)
(* move and the clock keeps running up to MaxChaseTime seconds             *)
(***************************************************************************)
MaxChaseMoves == 1
MaxChaseTime == 6

ChaseSize == <<5, 8>>

\* the draws of place_blocks and place_enemies: five movable blocks, three
\* eggs, two chasers; in the second layout the blocks fill a row but for the
\* hero's cell
ChaseDraws ==
    {<< [k |-> <<2, 1>>, v |-> s], [k |-> <<2, 3>>, v |-> s],
        [k |-> <<1, 4>>, v |-> s], [k |-> <<3, 2>>, v |-> s],
        [k |-> <<3, 6>>, v |-> s],
        [k |-> <<2, 6>>, v |-> CHARACTER_MAP.EGG],
        [k |-> <<2, 2>>, v |-> CHARACTER_MAP.EGG],
        [k |-> <<3, 3>>, v |-> CHARACTER_MAP.EGG],
        [k |-> c[1], v |-> CHARACTER_MAP.HUNTER],
        [k |-> c[2], v |-> CHARACTER_MAP.HUNTER] >> :
     s \in Range(MOVABLE_BLOCK_CHARACTERS),
     c \in {<< <<3, 4>>, <<3, 1>> >>, << <<3, 1>>, <<3, 4>> >>}}
    \cup
    {<< [k |-> <<1, 2>>, v |-> s], [k |-> <<1, 3>>, v |-> s],
        [k |-> <<1, 4>>, v |-> s], [k |-> <<1, 5>>, v |-> s],
        [k |-> <<1, 6>>, v |-> s],
        [k |-> <<3, 1>>, v |-> CHARACTER_MAP.EGG],
        [k |-> <<3, 2>>, v |-> CHARACTER_MAP.EGG],
        [k |-> <<3, 3>>, v |-> CHARACTER_MAP.EGG],
        [k |-> c[1], v |-> CHARACTER_MAP.HUNTER],
        [k |-> c[2], v |-> CHARACTER_MAP.HUNTER] >> :
     s \in Range(MOVABLE_BLOCK_CHARACTERS),
     c \in {<< <<3, 5>>, <<3, 6>> >>, << <<3, 6>>, <<3, 5>> >>}}

\* __init__ when the random source gives the draws of ChaseDraws
InitChase ==
    \E occ \in ChaseDraws :
        LET scene == Scene(ChaseSize[1], ChaseSize[2], occ, <<>>)
        IN  InPlay(ChaseSize,
                   find_farthest_position(
                       [height |-> ChaseSize[1], width |-> ChaseSize[2],
                        block_positions |-> scene.block_positions,
                        enemy_positions |-> scene.enemy_positions]),
                   scene)

\* the clock has advanced by a second when main_loop reads it again
Tick == now + 1 <= MaxChaseTime /\ Sleep(1)

NextChase ==
    \/ NoInput
    \/ \E d \in Directions : moves < MaxChaseMoves /\ InputMove(d[1], d[2])
    \/ EnemyStep
    \/ HatchStep
    \/ CollisionStep
    \/ Sleep(0)
    \/ Tick

\* main_loop passes from one of its steps to the next
Advance ==
    /\ pc \in {"input", "enemies", "hatch", "collide", "complete"}
    /\ pc' \in {"input", "enemies", "hatch", "collide", "complete", "gameover", "crashed"}
    /\ pc' # pc

\* main_loop keeps running and the clock keeps advancing
SpecChase ==
    InitChase /\ [][NextChase]_vars /\ WF_pc(Advance) /\ SF_vars(Tick)

\* the hunter set holds one Chaser and no Crusher
OneChaser ==
    /\ Cardinality(Chasers) = 1
    /\ \A i \in DOMAIN enemy_positions : Kind(i) # CHARACTER_MAP.CRUSHER

\* the path bfs_find_path gives the only Chaser
ChaserPath == bfs_find_path(Board, CHOOSE c \in Chasers : TRUE, hero_pos)

\* the hero has made its move, one Chaser is left, it has a path to the hero
\* and the clock leaves it the passes the path needs
Chased ==
    /\ moves = MaxChaseMoves
    /\ pc \notin {"gameover", "exit", "crashed"}
    /\ OneChaser
    /\ Len(ChaserPath) > 1
    /\ now + Len(ChaserPath) <= MaxChaseTime

C38_ChainBound ==
    LET extent == IF height > width THEN height ELSE width
    IN  \A d \in ((0 - 2) .. 2) \X ((0 - 2) .. 2) :
            LET p == Step(hero_pos, d)
            IN  d # <<0, 0>> /\ Movable(p)
                => /\ can_push_blocks_cells(Board, p[1], p[2], d[1], d[2]) <= extent
                   /\ can_push_blocks(Board, p[1], p[2], d[1], d[2])
                         => Len(CollectBlocks(block_positions, p[1], p[2], d[1], d[2]))
                               <= extent

\* the hero at (1,1) has tried to push the five blocks that fill the rest of
\* its row
W_C38 ==
    /\ moves = 1
    /\ hero_pos = <<1, 1>>
    /\ \A x \in 2 .. 6 : Movable(<<1, x>>)
    /\ can_push_blocks_cells(Board, 1, 2, 0, 1) = 5

(***************************************************************************)
(* Hatching and the pause                                                  *)
(***************************************************************************)
\* C39: time spent in the pause does not count toward an egg's hatch delay:
\* an Egg turns into a Crusher only at a hatch check before which the game
\* has been played, pauses not counted, for HATCHING_TIME seconds since the
\* egg was laid (the eggs of SpecHatch are laid at start_time)
CE_C39 ==
    [][pc = "hatch" =>
        \A i \in DOMAIN enemy_positions :
            Kind(i) = CHARACTER_MAP.EGG
            /\ HasKind(enemy_positions', Pos(i), CHARACTER_MAP.CRUSHER)
            => (now - start_time) - paused_time >= HATCHING_TIME]_vars

(***************************************************************************)
(* squish_03.py, the earlier version of the game: a field with one kind of *)
(* enemy and no eggs, played by the functions of a module, whose state is  *)
(* held by the locals of main. Where squish.py has a method of the same    *)
(* name the function is written with the suffix _03. block_positions maps  *)
(* a cell to CHARACTER_MAP.WALL for UNPUSHABLE_BLOCK_ID and to a block     *)
(* character for BLOCK_ID; enemies is enemy_positions and every value is   *)
(* CHARACTER_MAP.HUNTER for ENEMY_ID. The variables squish_03.py does not  *)
(* have keep their first values.                                           *)
(***************************************************************************)
ENEMY_MOVE_DELAY == 10

\* can_push_blocks: the while loop from the cell (start_y, start_x) on
RECURSIVE can_push_blocks_03(_, _, _, _, _, _, _, _)
can_push_blocks_03(blocks, enemies, start_y, start_x, dy, dx, field_width, field_height) ==
    IF <<start_y, start_x>> \notin DOMAIN blocks THEN TRUE
    ELSE LET y == start_y + dy
             x == start_x + dx
         IN  IF y < 1 \/ y >= field_height \/ x < 1 \/ x >= field_width THEN FALSE
             ELSE IF /\ <<y, x>> \in DOMAIN blocks
                     /\ blocks[<<y, x>>] = CHARACTER_MAP.WALL THEN FALSE
             ELSE IF /\ <<y, x>> \in Keys(enemies)
                     /\ <<y + dy, x + dx>> \notin DOMAIN blocks THEN FALSE
             ELSE IF <<y, x>> \in DOMAIN blocks
                  THEN can_push_blocks_03(blocks, enemies, y, x, dy, dx,
                                          field_width, field_height)
             ELSE TRUE

\* push_blocks: the while loop that collects blocks_to_move and pops the
\* squished enemies, then the for loop over reversed(blocks_to_move), which
\* is the loop of MoveBlocks; the result holds the two dicts as the call
\* leaves them and the squished_count it returns
push_blocks_03(blocks, enemies, start_y, start_x, dy, dx) ==
    LET RECURSIVE walk(_, _, _, _, _)
        walk(y, x, left, blocks_to_move, squished_count) ==
            IF <<y, x>> \in DOMAIN blocks
            THEN LET next_y == y + dy
                     next_x == x + dx
                     squish == /\ <<next_y, next_x>> \in Keys(left)
                               /\ <<next_y + dy, next_x + dx>> \in DOMAIN blocks
                 IN  walk(next_y, next_x,
                          IF squish THEN Del(left, <<next_y, next_x>>) ELSE left,
                          Append(blocks_to_move, <<y, x>>),
                          IF squish THEN squished_count + 1 ELSE squished_count)
            ELSE [enemy_positions |-> left, blocks_to_move |-> blocks_to_move,
                  squished_count |-> squished_count]
        w == walk(start_y, start_x, enemies, <<>>, 0)
    IN  [block_positions |-> MoveBlocks(blocks, w.blocks_to_move, dy, dx),
         enemy_positions |-> w.enemy_positions,
         squished_count |-> w.squished_count]

\* update_hero_position: the position it returns, the two dicts as it leaves
\* them, and its parameter total_squished_enemies as it stands at the return
update_hero_position(pos, dy, dx, blocks, enemies, field_width, field_height, total) ==
    LET next_y == pos[1] + dy
        next_x == pos[2] + dx
        same == [hero_pos |-> pos, block_positions |-> blocks,
                 enemy_positions |-> enemies, total_squished_enemies |-> total]
        pushed == push_blocks_03(blocks, enemies, next_y, next_x, dy, dx)
    IN  IF next_x < 1 \/ next_x >= field_width \/ next_y < 1 \/ next_y >= field_height
        THEN same
        ELSE IF <<next_y, next_x>> \in DOMAIN blocks
        THEN IF can_push_blocks_03(blocks, enemies, next_y, next_x, dy, dx,
                                   field_width, field_height)
             THEN [hero_pos |-> <<next_y, next_x>>,
                   block_positions |-> pushed.block_positions,
                   enemy_positions |-> pushed.enemy_positions,
                   total_squished_enemies |-> total + pushed.squished_count]
             ELSE same
        ELSE IF <<next_y, next_x>> \notin Keys(enemies)
        THEN [same EXCEPT !.hero_pos = <<next_y, next_x>>]
        ELSE same

\* bfs_distance_from_positions: the loop is that of Spread
bfs_distance_from_positions(field_width, field_height, positions) ==
    Spread(field_height, field_width, positions,
           [p \in (0 .. field_height - 1) \X (0 .. field_width - 1) |->
               IF p \in Range(positions) THEN 0 ELSE 0 - 1])

\* bfs_farthest_from_enemies_and_walls: the first cell of the row-major scan
\* of the inner field that is not occupied and has the greatest combined
\* distance
bfs_farthest_from_enemies_and_walls(field_width, field_height, enemies, blocks) ==
    LET distances_from_enemies ==
            bfs_distance_from_positions(field_width, field_height,
                [i \in DOMAIN enemies |-> enemies[i].k])
        wall_positions ==
            [x \in 1 .. field_width |-> <<0, x - 1>>]
            \o [x \in 1 .. field_width |-> <<field_height - 1, x - 1>>]
            \o [y \in 1 .. field_height |-> <<y - 1, 0>>]
            \o [y \in 1 .. field_height |-> <<y - 1, field_width - 1>>]
        distances_from_walls ==
            bfs_distance_from_positions(field_width, field_height, wall_positions)
        combined_distance(p) == distances_from_enemies[p] + distances_from_walls[p]
        candidates == {p \in (1 .. field_height - 2) \X (1 .. field_width - 2) :
                          /\ p \notin DOMAIN blocks
                          /\ p \notin Keys(enemies)
                          /\ combined_distance(p) > 0 - 1}
    IN  IF candidates = {} THEN None
        ELSE CHOOSE p \in candidates :
                \A q \in candidates \ {p} :
                    \/ combined_distance(q) < combined_distance(p)
                    \/ combined_distance(q) = combined_distance(p) /\ PosLess(p, q)

\* bfs_find_path of squish_03.py: four directions, inside the border, around
\* the cells of occupied
bfs_find_path_03(start, goal, field_width, field_height, occupied) ==
    LET RECURSIVE visit(_, _, _, _)
        visit(current, i, visited, queue) ==
            IF i > Len(orthogonal) THEN [visited |-> visited, queue |-> queue]
            ELSE LET ny == current[1] + orthogonal[i][1]
                     nx == current[2] + orthogonal[i][2]
                 IN  IF /\ 1 <= ny /\ ny < field_height /\ 1 <= nx /\ nx < field_width
                        /\ <<ny, nx>> \notin occupied
                        /\ <<ny, nx>> \notin DOMAIN visited
                     THEN visit(current, i + 1, Put(visited, <<ny, nx>>, current),
                                Append(queue, <<ny, nx>>))
                     ELSE visit(current, i + 1, visited, queue)
        RECURSIVE loop(_, _)
        loop(queue, visited) ==
            IF queue = <<>> THEN <<>>
            ELSE IF Head(queue) = goal THEN PathBack(goal, visited)
            ELSE LET r == visit(Head(queue), 1, visited, Tail(queue))
                 IN  loop(r.queue, r.visited)
    IN  loop(<<start>>, [p \in {start} |-> None])

\* move_enemies of squish_03.py: the dicts it can return; random.shuffle
\* makes the step of an enemy without a path any of its free neighbours
move_enemies_03(enemies, hero, field_width, field_height, blocks, tick) ==
    IF tick % ENEMY_MOVE_DELAY # 0 THEN {enemies}
    ELSE LET occupied == (DOMAIN blocks) \cup Keys(enemies)
             free(p) == {n \in {Step(p, orthogonal[i]) : i \in DOMAIN orthogonal} :
                            /\ 1 <= n[1] /\ n[1] < field_height
                            /\ 1 <= n[2] /\ n[2] < field_width
                            /\ n \notin occupied}
             RECURSIVE each(_, _)
             each(i, new_positions) ==
                 IF i > Len(enemies) THEN {new_positions}
                 ELSE LET enemy_pos == enemies[i].k
                          path == bfs_find_path_03(enemy_pos, hero, field_width,
                                                   field_height, occupied)
                      IN  IF Len(path) > 1
                          THEN each(i + 1,
                                    Set(new_positions,
                                        IF path[2] \notin occupied THEN path[2]
                                        ELSE enemy_pos,
                                        CHARACTER_MAP.HUNTER))
                          ELSE IF free(enemy_pos) = {}
                          THEN each(i + 1, Set(new_positions, enemy_pos,
                                               CHARACTER_MAP.HUNTER))
                          ELSE UNION {each(i + 1, Set(new_positions, n,
                                                      CHARACTER_MAP.HUNTER)) :
                                      n \in free(enemy_pos)}
         IN  each(1, <<>>)

\* update_game_state, which main calls with block_positions
update_game_state(enemies, squished_enemies) ==
    SelectSeq(enemies, LAMBDA e : e.k \notin DOMAIN squished_enemies)

(***************************************************************************)
(* Spec_03: the first level of squish_03.py on a 10 x 10 field, from the   *)
(* first turn of main's inner loop to the level report or the end of the   *)
(* game, for MaxTicks_03 turns                                             *)
(***************************************************************************)
MaxTicks_03 == 5

\* main up to the inner loop, when place_blocks draws the 22 blocks below
\* and place_enemies one of three cells
Init_03 ==
    \E enemy \in {<<5, 3>>, <<6, 6>>, <<8, 1>>} :
        LET field_height == 10
            field_width == 10
            drawn == {<<1, 1>>, <<1, 2>>, <<1, 7>>, <<1, 8>>, <<2, 7>>, <<2, 8>>,
                      <<3, 2>>, <<3, 3>>, <<4, 1>>, <<4, 4>>, <<4, 7>>, <<4, 8>>,
                      <<5, 1>>, <<5, 6>>, <<5, 7>>, <<5, 8>>, <<6, 4>>, <<6, 5>>,
                      <<6, 8>>, <<7, 4>>, <<8, 7>>, <<8, 8>>}
            border == {p \in (0 .. field_height - 1) \X (0 .. field_width - 1) :
                          \/ p[1] \in {0, field_height - 1}
                          \/ p[2] \in {0, field_width - 1}}
            blocks == [p \in drawn \cup border |->
                          IF p \in border THEN CHARACTER_MAP.WALL
                          ELSE MOVABLE_BLOCK_CHARACTERS[1]]
            enemies == <<[k |-> enemy, v |-> CHARACTER_MAP.HUNTER]>>
        IN  /\ height = field_height
            /\ width = field_width
            /\ block_positions = blocks
            /\ enemy_positions = enemies
            /\ hero_pos = bfs_farthest_from_enemies_and_walls(field_width, field_height,
                                                              enemies, blocks)
            /\ egg_positions = EmptyDict
            /\ hatching_times = <<>>
            /\ level = 1
            /\ lives = INITIAL_LIVES
            /\ total_squished_enemies = 0
            /\ moves = 0
            /\ score = 0
            /\ start_time = 0
            /\ paused_time = 0
            /\ now = 0
            /\ current_time = 0
            /\ last_hunter_move_time = 0
            /\ last_hatch_check_time = 0
            /\ moved_at = 0
            /\ checked_at = 0
            /\ tick_count = 0
            /\ pc = "collide"

\* main: check_collision and, on a collision, end_game; a player who plays
\* again leaves the inner loop for the level report
Collision_03 ==
    /\ pc = "collide"
    /\ IF hero_pos \in Keys(enemy_positions)
       THEN \E again \in BOOLEAN : pc' = IF again THEN "completed" ELSE "exit"
       ELSE pc' = "input"
    /\ UNCHANGED <<tick_count, height, width, hero_pos, boardVars, sessionVars, clockVars>>

\* main: handle_input and update_hero_position. The count of squished
\* enemies is added to update_hero_position's own parameter, the function
\* returns the position alone, and main's total_squished_enemies stays
Input_03(key) ==
    /\ pc = "input"
    /\ IF key = "q"
       THEN /\ pc' = "crashed"
            /\ UNCHANGED <<hero_pos, block_positions, enemy_positions, moves>>
       ELSE LET dy == IF key = "KEY_UP" THEN 0 - 1 ELSE IF key = "KEY_DOWN" THEN 1 ELSE 0
                dx == IF key = "KEY_UP" \/ key = "KEY_DOWN" THEN 0
                      ELSE IF key = "KEY_LEFT" THEN 0 - 1
                      ELSE IF key = "KEY_RIGHT" THEN 1 ELSE 0
                r == update_hero_position(hero_pos, dy, dx, block_positions,
                                          enemy_positions, width, height,
                                          total_squished_enemies)
            IN  /\ hero_pos' = r.hero_pos
                /\ block_positions' = r.block_positions
                /\ enemy_positions' = r.enemy_positions
                /\ moves' = IF r.hero_pos # hero_pos THEN moves + 1 ELSE moves
                /\ pc' = "enemies"
    /\ UNCHANGED <<tick_count, height, width, egg_positions, hatching_times, level, lives,
                   total_squished_enemies, score, clockVars>>

\* main: move_enemies, update_game_state, tick_count and the test of the
\* inner loop; display_level_completion shows total_squished_enemies when
\* pc is "completed"
Enemies_03 ==
    /\ pc = "enemies"
    /\ \E moved \in move_enemies_03(enemy_positions, hero_pos, width, height,
                                    block_positions, tick_count) :
           enemy_positions' = update_game_state(moved, block_positions)
    /\ tick_count' = tick_count + 1
    /\ pc' = IF enemy_positions' = <<>> THEN "completed" ELSE "collide"
    /\ UNCHANGED <<height, width, hero_pos, block_positions, egg_positions,
                   hatching_times, sessionVars, clockVars>>

Next_03 ==
    \/ Collision_03
    \/ \E key \in {"", "KEY_UP", "KEY_DOWN", "KEY_LEFT", "KEY_RIGHT", "q"} :
          tick_count < MaxTicks_03 /\ Input_03(key)
    \/ Enemies_03

Spec_03 == Init_03 /\ [][Next_03]_vars

\* C40: a hero move of squish_03.py that squishes n enemies raises the
\* total_squished_enemies of main, which the level report shows as 'Enemies
\* Eliminated', by n
CE_C40 ==
    [][pc = "input" /\ pc' = "enemies"
          => total_squished_enemies'
                = total_squished_enemies
                  + (Len(enemy_positions) - Len(enemy_positions'))]_vars

====
